---- MODULE Spec2Model ----
(***************************************************************************)
(* image-edit-api: the raster engine of ImageProcessingService             *)
(* (src/src/image/services/image-processing/image-processing.service.ts).  *)
(*                                                                         *)
(* One call of cropRegions, or one call of removeBackground, is a state    *)
(* machine whose steps are the continuations between the awaits of the     *)
(* async method: JavaScript runs each continuation (and the microtasks it  *)
(* queues) to completion before the next codec callback is delivered.      *)
(*                                                                         *)
(* An encoded image (a Buffer holding PNG/JPEG bytes) is the record        *)
(*   [width, height, channels, pixels]                                     *)
(* with pixels a sequence, row-major, of channel tuples <<r,g,b>> or       *)
(* <<r,g,b,a>>.  A raw buffer is a flat sequence of bytes, 4 per pixel;    *)
(* byte offset i of the code (0-based) is element i+1 of the sequence.     *)
(***************************************************************************)
EXTENDS Integers, Sequences, FiniteSets, TLC

VARIABLES
    imageBuffer,        \* the uploaded image (argument of both operations)
    regions,            \* cropRegions: the CropRegion[] argument
    includeBackground,  \* cropRegions: the includeBackground argument
    options,            \* removeBackground: ProcessingOptions
    pc,                 \* the await the call is suspended at, "done" or "failed"
    dims,               \* cropRegions: { width, height } read from metadata
    tasks,              \* cropRegions: state of the promise of each extraction
    completionOrder,    \* cropRegions: region indices in the order their tasks fulfilled
    croppedImages,      \* cropRegions: the array Promise.all resolved with
    data,               \* the raw RGBA buffer being mutated in place
    writes,             \* byte offsets of data assigned so far
    result,             \* what the call returned: <<>> or <<value>>
    error,              \* what the call threw
    colorString,        \* ColorParserService: the colorString argument
    geminiBoundingBoxes, \* BoundingBoxTransformService.transform: the detected boxes
    objectDescriptions, \* BoundingBoxTransformService.transform: the requested objects
    imageSize,          \* BoundingBoxTransformService: { width, height }
    rectangle,          \* BoundingBoxTransformService.validateBounds: x, y, w, h
    request,            \* ImageController: the fields of the HTTP request
    response,           \* ImageController: the HTTP response, <<>> before it is sent
    env,                \* ConfigService: the environment variables
    attempt,            \* ReplicateService.runWithRetry: the loop counter
    lastError,          \* ReplicateService.runWithRetry: <<>> or <<message>>
    sleeps,             \* ReplicateService.runWithRetry: the delays slept so far
    calls,              \* ReplicateService.runWithRetry: what each client.run settled with
    timer,              \* GeminiService.detectBoundingBoxes: the setTimeout of timeoutPromise
    apiPromise,         \* GeminiService.detectBoundingBoxes: the promise of generateContent
    race                \* GeminiService.detectBoundingBoxes: what Promise.race settled with

vars == <<imageBuffer, regions, includeBackground, options, pc, dims, tasks,
          completionOrder, croppedImages, data, writes, result, error,
          colorString, geminiBoundingBoxes, objectDescriptions, imageSize,
          rectangle, request, response, env, attempt, lastError, sleeps, calls,
          timer, apiPromise, race>>

\* The state of the calls to the external providers (Replicate, Gemini).
providerState == <<attempt, lastError, sleeps, calls, timer, apiPromise, race>>

\* The arguments of the other services, and what belongs to the controller:
\* a call of ImageProcessingService reads and writes none of them.
otherArgs ==
    <<colorString, geminiBoundingBoxes, objectDescriptions, imageSize, rectangle,
      request, response, env, providerState>>

(***************************************************************************)
(* Bounds of the model.                                                    *)
(***************************************************************************)
MaxWidth == 2
MaxRegions == 2
MaxChan == 2
MaxTol == 3
MaxRbWidth == 2

\* An absent optional value is <<>>, a present one <<v>>.
None == <<>>
Some(v) == <<v>>

\* No HTTP request is being served; the environment is not read.
NoRequest == [endpoint |-> "none"]
NoEnv == [TOLERANCE |-> <<>>, GEMINI_API_TIMEOUT |-> <<>>]

\* No call to an external provider has been made.
NoProviderCall ==
    /\ attempt = 0
    /\ lastError = None
    /\ sleeps = <<>>
    /\ calls = <<>>
    /\ timer = [state |-> "unset", ms |-> 0]
    /\ apiPromise = [state |-> "none"]
    /\ race = None

\* region.object when the caller supplied no label (undefined in the code).
NoObject == "undefined"

Min(a, b) == IF a < b THEN a ELSE b

\* The heights of the pictures of the model.
Heights == {1, 2}

(***************************************************************************)
(* Images                                                                  *)
(***************************************************************************)
\* The byte of pixel p (0-based), channel c (0..3), of a test picture: every
\* pixel of a picture differs from every other in each of R, G and B, and a
\* picture that has an alpha channel mixes opaque and translucent pixels.
PatternByte(p, c) ==
    CASE c = 0 -> 10 + p
      [] c = 1 -> 40 + p
      [] c = 2 -> 70 + p
      [] OTHER -> IF p % 2 = 0 THEN 128 ELSE 255

PatternImage(w, h, ch) ==
    [width |-> w, height |-> h, channels |-> ch,
     pixels |-> [p \in 1..(w * h) |-> [c \in 1..ch |-> PatternByte(p - 1, c - 1)]]]

\* An input whose metadata reports no dimensions (metadata.width undefined).
NoDimsImage == [width |-> 0, height |-> 0, channels |-> 3, pixels |-> <<>>]

CropImages ==
    {PatternImage(w, h, ch) : w \in 1..MaxWidth, h \in Heights, ch \in {3, 4}}
        \cup {NoDimsImage}

\* sharp(imageBuffer).ensureAlpha().raw().toBuffer(): the flat RGBA bytes of
\* the picture, alpha 255 synthesized when the source has no alpha channel.
extractRawPixels(img) ==
    [i \in 1..(4 * img.width * img.height) |->
        LET p == (i - 1) \div 4
            c == (i - 1) % 4
        IN  IF c < img.channels THEN img.pixels[p + 1][c + 1] ELSE 255]

\* sharp(rawData, {raw: {width, height, channels: 4}}).png().toBuffer()
buildPngFromRaw(rawData, width, height) ==
    [width |-> width, height |-> height, channels |-> 4,
     pixels |-> [p \in 1..(width * height) |->
                    [c \in 1..4 |-> rawData[4 * (p - 1) + c]]]]

(***************************************************************************)
(* cropRegions                                                             *)
(***************************************************************************)
Region(o, x, y, w, h) ==
    [object |-> o, position |-> [x |-> x, y |-> y], size |-> [w |-> w, h |-> h]]

\* The regions a request is drawn from: in-bounds windows (overlapping,
\* coinciding, labelled or not) and windows breaking each rule, alone and
\* together with a later rule.
RegionVals ==
    { Region("cat", 0, 0, 1, 1),
      Region(NoObject, 0, 0, 1, 1),
      Region("dog", 1, 0, 1, 1),
      Region(NoObject, 0, 1, 1, 1),
      Region(NoObject, 0, 0, 2, 1),
      Region("cat", 0, 0, 1, 2),
      Region(NoObject, 1, 1, 1, 1),
      Region(NoObject, 0, 0, 2, 2),
      Region(NoObject, 1, 0, 2, 2),
      Region(NoObject, 0, 1, 1, 2),
      Region(NoObject, -1, 0, 1, 1),
      Region(NoObject, 0, -1, 0, 1),
      Region(NoObject, 0, 0, 0, 1),
      Region(NoObject, 1, 0, 1, 0) }

RegionLists == UNION {[1..n -> RegionVals] : n \in 0..MaxRegions}

NoError == [kind |-> "none", index |-> -1, rule |-> "none"]

\* firstViolation with the two overflow checks in the other order.
firstViolationHeightFirst(region, imageWidth, imageHeight) ==
    LET x == region.position.x
        y == region.position.y
        w == region.size.w
        h == region.size.h
    IN  IF x < 0 \/ y < 0 THEN "negative position"
        ELSE IF w <= 0 \/ h <= 0 THEN "non-positive size"
        ELSE IF y + h > imageHeight THEN "beyond image height"
        ELSE IF x + w > imageWidth THEN "beyond image width"
        ELSE "none"

\* The first check of validateCropRegions' callback that region breaks, in
\* the order the code makes them; "none" when it passes all four.
firstViolation(region, imageWidth, imageHeight) ==
    LET x == region.position.x
        y == region.position.y
        w == region.size.w
        h == region.size.h
    IN  IF x < 0 \/ y < 0 THEN "negative position"
        ELSE IF w <= 0 \/ h <= 0 THEN "non-positive size"
        ELSE IF x + w > imageWidth THEN "beyond image width"
        ELSE IF y + h > imageHeight THEN "beyond image height"
        ELSE "none"

RECURSIVE validateFrom(_, _, _, _)
validateFrom(rs, index, imageWidth, imageHeight) ==
    IF index > Len(rs) THEN NoError
    ELSE LET v == firstViolation(rs[index], imageWidth, imageHeight)
         IN  IF v # "none"
             THEN [kind |-> "validation", index |-> index - 1, rule |-> v]
             ELSE validateFrom(rs, index + 1, imageWidth, imageHeight)

\* validateCropRegions looking at the first region only.
validateFirstRegionOnly(rs, imageWidth, imageHeight) ==
    validateFrom(SubSeq(rs, 1, Min(1, Len(rs))), 1, imageWidth, imageHeight)

\* regions.forEach(...): the Error thrown, NoError when none is.  The index
\* of the error is the code's 0-based index.
validateCropRegions(rs, imageWidth, imageHeight) ==
    validateFrom(rs, 1, imageWidth, imageHeight)


\* extractCropRegion with left and top exchanged.
extractCropRegionTransposed(img, region, index) ==
    LET left == region.position.y
        top == region.position.x
        w == region.size.w
        h == region.size.h
    IN  IF left < 0 \/ top < 0 \/ w <= 0 \/ h <= 0
           \/ left + w > img.width \/ top + h > img.height
        THEN None
        ELSE Some([width |-> w, height |-> h, channels |-> img.channels,
                   pixels |-> [k \in 1..(w * h) |->
                       img.pixels[(top + ((k - 1) \div w)) * img.width
                                  + left + ((k - 1) % w) + 1]]])

\* sharp(imageBuffer).extract({left, top, width, height}).png().toBuffer():
\* the window of the picture, with the picture's own channels; sharp rejects
\* an area that is not inside the picture (<<>> here).
extractCropRegion(img, region, index) ==
    LET left == region.position.x
        top == region.position.y
        w == region.size.w
        h == region.size.h
    IN  IF left < 0 \/ top < 0 \/ w <= 0 \/ h <= 0
           \/ left + w > img.width \/ top + h > img.height
        THEN None
        ELSE Some([width |-> w, height |-> h, channels |-> img.channels,
                   pixels |-> [k \in 1..(w * h) |->
                       img.pixels[(top + ((k - 1) \div w)) * img.width
                                  + left + ((k - 1) % w) + 1]]])

PendingTask == [state |-> "pending", value |-> None]

\* regions.map((region, index) => this.extractCropRegion(...)): one promise
\* per region, all started in the same synchronous step.
startTasks(rs) == [i \in 1..Len(rs) |-> PendingTask]

\* The crops collected in the order the extractions finished.
valuesInCompletionOrder(ts, order) == [k \in 1..Len(order) |-> ts[order[k]].value[1]]

\* The array Promise.all fulfils with: slot i holds the value promise i
\* fulfilled with, whenever it did.
promiseAllValues(ts, order) == [i \in 1..Len(ts) |-> ts[i].value[1]]

\* Promise.all is fulfilled when every input promise is, and rejected as
\* soon as one is rejected.
promiseAllState(ts) ==
    IF \E i \in 1..Len(ts) : ts[i].state = "rejected" THEN "rejected"
    ELSE IF \A i \in 1..Len(ts) : ts[i].state = "fulfilled" THEN "fulfilled"
    ELSE "pending"

\* maskOffsets with the loops running to y + h and x + w inclusive.
maskOffsetsInclusive(region, width, height) ==
    LET x == region.position.x
        y == region.position.y
        w == region.size.w
        h == region.size.h
    IN  {(row * width + col) * 4 + 3 :
            row \in y..Min(y + h, height - 1),
            col \in x..Min(x + w, width - 1)}

\* maskOffsets assigning data[pixelIndex] instead of data[pixelIndex + 3].
maskOffsetsFirstByte(region, width, height) ==
    LET x == region.position.x
        y == region.position.y
        w == region.size.w
        h == region.size.h
    IN  {(row * width + col) * 4 :
            row \in y..(Min(y + h, height) - 1),
            col \in x..(Min(x + w, width) - 1)}

\* The byte offsets the two nested loops of generateBackgroundWithTransparency
\* assign for one region.
maskOffsets(region, width, height) ==
    LET x == region.position.x
        y == region.position.y
        w == region.size.w
        h == region.size.h
    IN  {(row * width + col) * 4 + 3 :
            row \in y..(Min(y + h, height) - 1),
            col \in x..(Min(x + w, width) - 1)}

\* maskRegion building the mask of its region alone: alpha 0 inside, opaque
\* everywhere else.
maskRegionAlone(buf, region, width, height) ==
    LET offsets == maskOffsets(region, width, height)
    IN  [i \in 1..Len(buf) |->
            IF (i - 1) \in offsets THEN 0
            ELSE IF (i - 1) % 4 = 3 THEN 255
            ELSE buf[i]]

\* data[pixelIndex + 3] = 0 for every offset of the region; an assignment
\* outside a Buffer's length changes nothing.
maskRegion(buf, region, width, height) ==
    LET offsets == maskOffsets(region, width, height)
    IN  [i \in 1..Len(buf) |-> IF (i - 1) \in offsets THEN 0 ELSE buf[i]]

\* for (const region of regions) { ... }: the regions in input order, each on
\* the buffer the previous one left.
RECURSIVE maskLoop(_, _, _, _, _)
maskLoop(buf, rs, k, width, height) ==
    IF k > Len(rs) THEN buf
    ELSE maskLoop(maskRegion(buf, rs[k], width, height), rs, k + 1, width, height)

\* The offsets inside the buffer that the loops assigned.
maskWrites(buf, rs, width, height) ==
    {o \in UNION {maskOffsets(rs[k], width, height) : k \in 1..Len(rs)} :
        o >= 0 /\ o < Len(buf)}

\* croppedRegionsOf with the two sizes exchanged.
croppedRegionsTransposed(rs) ==
    [i \in 1..Len(rs) |->
        [index |-> i - 1,
         object |-> rs[i].object,
         position |-> rs[i].position,
         size |-> [width |-> rs[i].size.h, height |-> rs[i].size.w]]]

\* metadata.croppedRegions of the returned CropResult.
croppedRegionsOf(rs) ==
    [i \in 1..Len(rs) |->
        [index |-> i - 1,
         object |-> rs[i].object,
         position |-> rs[i].position,
         size |-> [width |-> rs[i].size.w, height |-> rs[i].size.h]]]

cropResult(crops, background, rs, width, height) ==
    [croppedImages |-> crops,
     backgroundImage |-> background,
     metadata |-> [originalDimensions |-> [width |-> width, height |-> height],
                   croppedRegions |-> croppedRegionsOf(rs)]]

\* The catch block of cropRegions: whatever was thrown leaves the call as an
\* InternalServerErrorException carrying the original message.
cropCatch(e) ==
    [exception |-> "InternalServerErrorException", kind |-> e.kind,
     index |-> e.index, rule |-> e.rule]

NoException == [exception |-> "none", kind |-> "none", index |-> -1, rule |-> "none"]

CodecError(what) == [kind |-> what, index |-> -1, rule |-> "none"]

Init ==
    /\ imageBuffer \in CropImages
    /\ regions \in RegionLists
    /\ includeBackground \in BOOLEAN
    /\ options = None
    /\ pc = "metadata"
    /\ dims = [width |-> 0, height |-> 0]
    /\ tasks = <<>>
    /\ completionOrder = <<>>
    /\ croppedImages = None
    /\ data = <<>>
    /\ writes = {}
    /\ result = None
    /\ error = NoException
    /\ colorString = <<>>
    /\ geminiBoundingBoxes = <<>>
    /\ objectDescriptions = <<>>
    /\ imageSize = [width |-> 0, height |-> 0]
    /\ rectangle = [x |-> 0, y |-> 0, w |-> 0, h |-> 0]
    /\ request = NoRequest
    /\ response = None
    /\ NoProviderCall
    /\ env = NoEnv

\* The buffer generateBackgroundWithTransparency hands to the encoder.
generateBackgroundData(raw, rs, width, height) ==
    maskLoop(raw, rs, 1, width, height)

\* The values of the extractions that fulfilled, in input order.
RECURSIVE fulfilledValues(_, _)
fulfilledValues(ts, k) ==
    IF k > Len(ts) THEN <<>>
    ELSE (IF ts[k].state = "fulfilled" THEN ts[k].value ELSE <<>>)
             \o fulfilledValues(ts, k + 1)

\* A rejected extraction treated as settled (Promise.allSettled): the call
\* goes on with the crops that did succeed.
onTaskRejectedSettled(i) ==
    IF \A j \in 1..Len(tasks') : tasks'[j].state # "pending"
    THEN /\ croppedImages' = Some(fulfilledValues(tasks', 1))
         /\ error' = error
         /\ IF includeBackground
            THEN pc' = "rawPixels" /\ result' = result
            ELSE /\ pc' = "done"
                 /\ result' = Some(cropResult(fulfilledValues(tasks', 1), None,
                                              regions, dims.width, dims.height))
    ELSE UNCHANGED <<pc, croppedImages, result, error>>

\* What cropRegions does when the promise of region i rejects: Promise.all
\* rejects with that reason and the await throws into the catch block.
onTaskRejected(i) ==
    /\ pc' = "failed"
    /\ error' = cropCatch([kind |-> "extract", index |-> i - 1, rule |-> "none"])
    /\ UNCHANGED <<croppedImages, result>>

\* The rest of cropRegions once Promise.all has fulfilled with crops: the
\* call goes on to the background, or returns without one.
AfterPromiseAll(crops, width, height) ==
    /\ croppedImages' = Some(crops)
    /\ error' = error
    /\ IF includeBackground
       THEN /\ pc' = "rawPixels"
            /\ result' = result
       ELSE /\ pc' = "done"
            /\ result' = Some(cropResult(crops, None, regions,
                                         width, height))

\* Something was thrown inside the try block of cropRegions.
Throw(e) ==
    /\ pc' = "failed"
    /\ error' = cropCatch(e)
    /\ UNCHANGED <<croppedImages, result>>

\* await sharp(imageBuffer).metadata() resolved: the dimension check, the
\* validation of all regions and the start of every extraction.
MetadataResolved ==
    /\ pc = "metadata"
    /\ dims' = [width |-> imageBuffer.width, height |-> imageBuffer.height]
    /\ LET v == validateCropRegions(regions, imageBuffer.width, imageBuffer.height)
       IN  IF imageBuffer.width = 0 \/ imageBuffer.height = 0
           THEN Throw(CodecError("dimensions")) /\ tasks' = tasks
           ELSE IF v # NoError
           THEN Throw(v) /\ tasks' = tasks
           ELSE /\ tasks' = startTasks(regions)
                /\ IF promiseAllState(tasks') = "fulfilled"
                   THEN AfterPromiseAll(promiseAllValues(tasks', completionOrder),
                                        imageBuffer.width, imageBuffer.height)
                   ELSE /\ pc' = "extract"
                        /\ UNCHANGED <<croppedImages, result, error>>
    /\ UNCHANGED <<otherArgs, imageBuffer, regions, includeBackground, options,
                   completionOrder, data, writes>>

\* The extraction of region i fulfilled.  When it is the last one Promise.all
\* fulfils and cropRegions continues in the same turn.
TaskFulfilled(i) ==
    /\ pc = "extract"
    /\ tasks[i].state = "pending"
    /\ extractCropRegion(imageBuffer, regions[i], i - 1) # None
    /\ tasks' = [tasks EXCEPT ![i] =
                    [state |-> "fulfilled",
                     value |-> extractCropRegion(imageBuffer, regions[i], i - 1)]]
    /\ completionOrder' = Append(completionOrder, i)
    /\ IF promiseAllState(tasks') = "fulfilled"
       THEN AfterPromiseAll(promiseAllValues(tasks', completionOrder'),
                            dims.width, dims.height)
       ELSE UNCHANGED <<pc, croppedImages, result, error>>
    /\ UNCHANGED <<otherArgs, imageBuffer, regions, includeBackground, options, dims,
                   data, writes>>

\* The extraction of region i rejected (sharp refused the area, or the codec
\* failed): Promise.all rejects at once and the catch block runs.  The
\* extractions still pending are not awaited any more: whatever they settle
\* with is dropped.
TaskRejected(i) ==
    /\ pc = "extract"
    /\ tasks[i].state = "pending"
    /\ tasks' = [tasks EXCEPT ![i] = [state |-> "rejected", value |-> None]]
    /\ onTaskRejected(i)
    /\ UNCHANGED <<otherArgs, imageBuffer, regions, includeBackground, options, dims,
                   completionOrder, data, writes>>

\* await this.extractRawPixels(imageBuffer) resolved inside
\* generateBackgroundWithTransparency: the masking loops run on the decoded
\* copy, then the encoding is started.
RawPixelsResolved ==
    /\ pc = "rawPixels"
    /\ data' = generateBackgroundData(extractRawPixels(imageBuffer), regions,
                                      dims.width, dims.height)
    /\ writes' = maskWrites(extractRawPixels(imageBuffer), regions,
                            dims.width, dims.height)
    /\ pc' = "encode"
    /\ UNCHANGED <<otherArgs, imageBuffer, regions, includeBackground, options, dims, tasks,
                   completionOrder, croppedImages, result, error>>

\* await this.buildPngFromRaw(data, info.width, info.height) resolved:
\* cropRegions returns the CropResult.
EncodeResolved ==
    /\ pc = "encode"
    /\ pc' = "done"
    /\ result' = Some(cropResult(croppedImages[1],
                    Some(buildPngFromRaw(data, imageBuffer.width, imageBuffer.height)),
                    regions, dims.width, dims.height))
    /\ UNCHANGED <<otherArgs, imageBuffer, regions, includeBackground, options, dims, tasks,
                   completionOrder, croppedImages, data, writes, error>>

\* One of the awaited codec calls (metadata, raw decoding, PNG encoding)
\* rejected: the catch block runs.
CodecRejected ==
    /\ pc \in {"metadata", "rawPixels", "encode"}
    /\ Throw(CodecError(pc))
    /\ UNCHANGED <<otherArgs, imageBuffer, regions, includeBackground, options, dims, tasks,
                   completionOrder, data, writes>>

Next ==
    \/ MetadataResolved
    \/ \E i \in 1..Len(tasks) : TaskFulfilled(i)
    \/ \E i \in 1..Len(tasks) : TaskRejected(i)
    \/ RawPixelsResolved
    \/ EncodeResolved
    \/ CodecRejected

Spec == Init /\ [][Next]_vars

(***************************************************************************)
(* removeBackground                                                        *)
(***************************************************************************)
RGB(r, g, b) == [r |-> r, g |-> g, b |-> b]

\* The colours a request asks to remove: a grey and two colours whose three
\* channels all differ.
TargetVals == {RGB(1, 1, 1), RGB(0, 1, 2), RGB(2, 1, 0)}

\* options.tolerance: left out, or an integer.
ToleranceVals == {None} \cup {Some(t) : t \in 0..MaxTol}

\* The alpha of a pixel of an input picture that has an alpha channel.
AlphaVals == {0, 128, 255}

\* A pixel of a picture outside its probe pixel.
FillByte(p, c) ==
    IF c < 3 THEN (p + c) % 3 ELSE IF p % 2 = 0 THEN 255 ELSE 64

\* A w x h picture whose pixel k (1-based) is px and whose other pixels
\* are the fill pattern.
ProbeImage(w, h, ch, k, px) ==
    [width |-> w, height |-> h, channels |-> ch,
     pixels |-> [p \in 1..(w * h) |->
                    IF p = k THEN px ELSE [c \in 1..ch |-> FillByte(p - 1, c - 1)]]]

ProbePixels(ch) ==
    IF ch = 3
    THEN {<<r, g, b>> : r \in 0..MaxChan, g \in 0..MaxChan, b \in 0..MaxChan}
    ELSE UNION {{<<r, g, b, a>> : r \in 0..MaxChan, g \in 0..MaxChan, b \in 0..MaxChan} :
                    a \in AlphaVals}

RbImages ==
    UNION {{ProbeImage(w, h, ch, k, px) : k \in 1..(w * h), px \in ProbePixels(ch)} :
              w \in 1..MaxRbWidth, h \in Heights, ch \in {3, 4}}

\* floor(sqrt(n)) for a natural n.
Isqrt(n) == CHOOSE s \in 0..n : s * s <= n /\ (s + 1) * (s + 1) > n

\* Math.sqrt(n) <= t for a natural n and an integer t: the root of a perfect
\* square is exact, any other root lies strictly between two integers.
sqrtLeq(n, t) ==
    LET s == Isqrt(n) IN IF s * s = n THEN s <= t ELSE s + 1 <= t

\* isColorMatch comparing the distance with < instead of <=.
isColorMatchStrict(pixelColor, targetColor, tolerance) ==
    IF tolerance = 0
    THEN /\ pixelColor.r = targetColor.r
         /\ pixelColor.g = targetColor.g
         /\ pixelColor.b = targetColor.b
    ELSE (pixelColor.r - targetColor.r) * (pixelColor.r - targetColor.r)
         + (pixelColor.g - targetColor.g) * (pixelColor.g - targetColor.g)
         + (pixelColor.b - targetColor.b) * (pixelColor.b - targetColor.b)
             < tolerance * tolerance

isColorMatch(pixelColor, targetColor, tolerance) ==
    IF tolerance = 0
    THEN /\ pixelColor.r = targetColor.r
         /\ pixelColor.g = targetColor.g
         /\ pixelColor.b = targetColor.b
    ELSE sqrtLeq((pixelColor.r - targetColor.r) * (pixelColor.r - targetColor.r)
                 + (pixelColor.g - targetColor.g) * (pixelColor.g - targetColor.g)
                 + (pixelColor.b - targetColor.b) * (pixelColor.b - targetColor.b),
                 tolerance)

\* clearAlpha writing transparent black over the whole pixel.
clearPixel(pixelData, i) ==
    [j \in 1..Len(pixelData) |-> IF j \in (i + 1)..(i + 4) THEN 0 ELSE pixelData[j]]

\* pixelData[i + 3] = 0
clearAlpha(pixelData, i) == [pixelData EXCEPT ![i + 3 + 1] = 0]

\* The loop of removeColorPixels from byte offset i on.
RECURSIVE removeFrom(_, _, _, _)
removeFrom(pixelData, i, targetColor, tolerance) ==
    IF i >= Len(pixelData) THEN pixelData
    ELSE LET r == pixelData[i + 1]
             g == pixelData[i + 2]
             b == pixelData[i + 3]
         IN  removeFrom(IF isColorMatch(RGB(r, g, b), targetColor, tolerance)
                        THEN clearAlpha(pixelData, i)
                        ELSE pixelData,
                        i + 4, targetColor, tolerance)

removeColorPixels(pixelData, targetColor, tolerance) ==
    removeFrom(pixelData, 0, targetColor, tolerance)

\* The byte offsets the loop of removeColorPixels assigns.
removeWrites(pixelData, targetColor, tolerance) ==
    {i + 3 : i \in {j \in 0..(Len(pixelData) - 1) :
                        /\ j % 4 = 0
                        /\ isColorMatch(RGB(pixelData[j + 1], pixelData[j + 2],
                                            pixelData[j + 3]),
                                        targetColor, tolerance)}}

\* options.tolerance || 0
toleranceOrZero(opts) == IF opts.tolerance = None THEN 0 ELSE opts.tolerance[1]

\* The catch block of removeBackground.
removeCatch(e) ==
    [exception |-> "InternalServerErrorException", kind |-> e.kind,
     index |-> e.index, rule |-> e.rule]

RbInit ==
    /\ imageBuffer \in RbImages
    /\ options \in {Some([backgroundColor |-> c, tolerance |-> t]) :
                        c \in TargetVals, t \in ToleranceVals}
    /\ regions = <<>>
    /\ includeBackground = FALSE
    /\ pc = "rbRawPixels"
    /\ dims = [width |-> 0, height |-> 0]
    /\ tasks = <<>>
    /\ completionOrder = <<>>
    /\ croppedImages = None
    /\ data = <<>>
    /\ writes = {}
    /\ result = None
    /\ error = NoException
    /\ colorString = <<>>
    /\ geminiBoundingBoxes = <<>>
    /\ objectDescriptions = <<>>
    /\ imageSize = [width |-> 0, height |-> 0]
    /\ rectangle = [x |-> 0, y |-> 0, w |-> 0, h |-> 0]
    /\ request = NoRequest
    /\ response = None
    /\ NoProviderCall
    /\ env = NoEnv

\* await this.extractRawPixels(imageBuffer) resolved in removeBackground:
\* removeColorPixels scans the buffer, then the encoding is started.
RbRawPixelsResolved ==
    /\ pc = "rbRawPixels"
    /\ data' = removeColorPixels(extractRawPixels(imageBuffer),
                                 options[1].backgroundColor,
                                 toleranceOrZero(options[1]))
    /\ writes' = removeWrites(extractRawPixels(imageBuffer),
                              options[1].backgroundColor,
                              toleranceOrZero(options[1]))
    /\ dims' = [width |-> imageBuffer.width, height |-> imageBuffer.height]
    /\ pc' = "rbEncode"
    /\ UNCHANGED <<otherArgs, imageBuffer, regions, includeBackground, options, tasks,
                   completionOrder, croppedImages, result, error>>

\* await this.buildPngFromRaw(modifiedData, info.width, info.height)
\* resolved: removeBackground returns the PNG.
RbEncodeResolved ==
    /\ pc = "rbEncode"
    /\ result' = Some(buildPngFromRaw(data, dims.width, dims.height))
    /\ pc' = "done"
    /\ UNCHANGED <<otherArgs, imageBuffer, regions, includeBackground, options, dims, tasks,
                   completionOrder, croppedImages, data, writes, error>>

\* The decoding or the encoding rejected: the catch block runs.
RbRejected ==
    /\ pc \in {"rbRawPixels", "rbEncode"}
    /\ pc' = "failed"
    /\ error' = removeCatch(CodecError(pc))
    /\ UNCHANGED <<otherArgs, imageBuffer, regions, includeBackground, options, dims, tasks,
                   completionOrder, croppedImages, data, writes, result>>

RbNext ==
    \/ RbRawPixelsResolved
    \/ RbEncodeResolved
    \/ RbRejected

RbSpec == RbInit /\ [][RbNext]_vars

(***************************************************************************)
(* Properties of cropRegions                                               *)
(***************************************************************************)
\* A region that breaks at least one of the four bound rules for a w x h image.
RegionInvalid(region, w, h) ==
    \/ region.position.x < 0
    \/ region.position.y < 0
    \/ region.size.w <= 0
    \/ region.size.h <= 0
    \/ region.position.x + region.size.w > w
    \/ region.position.y + region.size.h > h

InvalidIndices ==
    {i \in 1..Len(regions) :
        RegionInvalid(regions[i], imageBuffer.width, imageBuffer.height)}

\* crop is the w x h window of img at the region's position, pixel by pixel.
IsCropOf(crop, img, region) ==
    /\ crop.width = region.size.w
    /\ crop.height = region.size.h
    /\ Len(crop.pixels) = region.size.w * region.size.h
    /\ \A cx \in 0..(region.size.w - 1), cy \in 0..(region.size.h - 1) :
           crop.pixels[cy * region.size.w + cx + 1] =
               img.pixels[(region.position.y + cy) * img.width
                          + (region.position.x + cx) + 1]

\* C1: when any region of the request is invalid, whatever its position in
\* the list, no extraction is ever started, no crop is produced, no byte of a
\* background buffer is decoded or written and nothing is returned: the call
\* is still waiting for the metadata or has failed.
C1_NothingBeforeValidation ==
    InvalidIndices # {} =>
        /\ pc \in {"metadata", "failed"}
        /\ tasks = <<>>
        /\ completionOrder = <<>>
        /\ croppedImages = None
        /\ data = <<>>
        /\ writes = {}
        /\ result = None

\* A call that failed on its second region while its first region was valid.
C1_Witness ==
    /\ pc = "failed"
    /\ error.kind = "validation"
    /\ Len(regions) = 2
    /\ InvalidIndices = {2}
    /\ tasks = <<>>
    /\ writes = {}

\* C2: once the metadata is read, a request with an invalid region is
\* rejected with a validation error that names the smallest index of an
\* invalid region and, for that region, the first broken rule in the order
\* negative position, non-positive size, width overflow, height overflow.
C2_FirstViolationReported ==
    LET W == imageBuffer.width
        H == imageBuffer.height
        r == regions[error.index + 1]
        neg == r.position.x < 0 \/ r.position.y < 0
        size == r.size.w <= 0 \/ r.size.h <= 0
        wide == r.position.x + r.size.w > W
        high == r.position.y + r.size.h > H
    IN  /\ (dims.width > 0 /\ dims.height > 0 /\ InvalidIndices # {})
              => pc = "failed" /\ error.kind = "validation"
        /\ error.kind = "validation" =>
              /\ error.index + 1 \in InvalidIndices
              /\ \A j \in InvalidIndices : error.index + 1 <= j
              /\ error.rule \in {"negative position", "non-positive size",
                                 "beyond image width", "beyond image height"}
              /\ error.rule = "negative position" <=> neg
              /\ error.rule = "non-positive size" <=> ~neg /\ size
              /\ error.rule = "beyond image width" <=> ~neg /\ ~size /\ wide
              /\ error.rule = "beyond image height" <=> ~neg /\ ~size /\ ~wide /\ high

\* Two invalid regions; the first of them overflows both the width and the
\* height and is reported for its width.
C2_Witness ==
    /\ pc = "failed"
    /\ error.kind = "validation"
    /\ InvalidIndices = {1, 2}
    /\ error.index = 0
    /\ error.rule = "beyond image width"
    /\ regions[1].position.y + regions[1].size.h > imageBuffer.height

\* C3: a successful call with N regions returns N crops and N metadata
\* entries; entry i carries index i, the label, the position and the
\* size (as width/height) of regions[i]; originalDimensions is the source's
\* width and height.
C3_MetadataMirrorsRegions ==
    pc = "done" =>
        /\ result # None
        /\ Len(result[1].croppedImages) = Len(regions)
        /\ Len(result[1].metadata.croppedRegions) = Len(regions)
        /\ \A i \in 1..Len(regions) :
              LET m == result[1].metadata.croppedRegions[i]
              IN  /\ m.index = i - 1
                  /\ m.object = regions[i].object
                  /\ m.position = regions[i].position
                  /\ m.size.width = regions[i].size.w
                  /\ m.size.height = regions[i].size.h
        /\ result[1].metadata.originalDimensions.width = imageBuffer.width
        /\ result[1].metadata.originalDimensions.height = imageBuffer.height

\* A successful call with two regions of different labels, one of them not
\* square.
C3_Witness ==
    /\ pc = "done"
    /\ Len(regions) = 2
    /\ regions[1].object # regions[2].object
    /\ regions[2].object # NoObject
    /\ regions[1].size.w # regions[1].size.h
    /\ imageBuffer.width # imageBuffer.height

\* C4: all extractions of a call are started together, and whatever the
\* order in which they finish, crop i of the array the call goes on with is
\* the crop of regions[i].
C4_OutputInInputOrder ==
    /\ pc = "extract" =>
          /\ Len(tasks) = Len(regions)
          /\ \A i \in 1..Len(tasks) :
                tasks[i].state = "pending" <=>
                    ~(\E k \in 1..Len(completionOrder) : completionOrder[k] = i)
    /\ croppedImages # None =>
          /\ Len(croppedImages[1]) = Len(regions)
          /\ \A i \in 1..Len(regions) :
                IsCropOf(croppedImages[1][i], imageBuffer, regions[i])

\* The second extraction finished before the first, and the two crops differ.
C4_Witness ==
    /\ croppedImages # None
    /\ completionOrder = <<2, 1>>
    /\ croppedImages[1][1] # croppedImages[1][2]

\* C5: a CropResult is returned only by a call in which every extraction
\* fulfilled and, when a background was asked for, the background was built;
\* a call in which an extraction or a codec step failed returns nothing, and
\* a returned result holds one crop per region.
C5_NoPartialResult ==
    /\ result # None =>
          /\ pc = "done"
          /\ error = NoException
          /\ \A i \in 1..Len(regions) : tasks[i].state = "fulfilled"
          /\ Len(result[1].croppedImages) = Len(regions)
          /\ includeBackground => result[1].backgroundImage # None
    /\ (\E i \in 1..Len(tasks) : tasks[i].state = "rejected") =>
          pc = "failed" /\ result = None
    /\ error # NoException => pc = "failed" /\ result = None
    /\ pc = "failed" => error.exception = "InternalServerErrorException"

\* An extraction failed after another one had already produced its crop.
C5_Witness ==
    /\ pc = "failed"
    /\ error.kind = "extract"
    /\ Len(completionOrder) >= 1
    /\ result = None

\* Pixel (col, row) lies inside the window of at least one region.
InsideSomeRegion(col, row) ==
    \E i \in 1..Len(regions) :
        /\ regions[i].position.x <= col
        /\ col < regions[i].position.x + regions[i].size.w
        /\ regions[i].position.y <= row
        /\ row < regions[i].position.y + regions[i].size.h

\* The alpha of pixel p (1-based) of the decoded source: its own when the
\* source has an alpha channel, full opacity otherwise.
SourceAlpha(p) ==
    IF imageBuffer.channels = 4 THEN imageBuffer.pixels[p][4] ELSE 255

\* C6: the background of a successful call is null exactly when
\* includeBackground is false, the crops being there all the same; otherwise
\* it has the source's width and height, every pixel inside at least one
\* region has alpha 0 and every pixel inside no region has the R, G, B and
\* alpha of the decoded source.
C6_BackgroundMasked ==
    pc = "done" =>
        LET W == imageBuffer.width
            H == imageBuffer.height
        IN  /\ result[1].backgroundImage = None <=> ~includeBackground
            /\ Len(result[1].croppedImages) = Len(regions)
            /\ includeBackground =>
                  LET bg == result[1].backgroundImage[1]
                  IN  /\ bg.width = W
                      /\ bg.height = H
                      /\ Len(bg.pixels) = W * H
                      /\ \A col \in 0..(W - 1), row \in 0..(H - 1) :
                            LET p == row * W + col + 1
                            IN  IF InsideSomeRegion(col, row)
                                THEN bg.pixels[p][4] = 0
                                ELSE /\ bg.pixels[p][1] = imageBuffer.pixels[p][1]
                                     /\ bg.pixels[p][2] = imageBuffer.pixels[p][2]
                                     /\ bg.pixels[p][3] = imageBuffer.pixels[p][3]
                                     /\ bg.pixels[p][4] = SourceAlpha(p)

\* A background with a punched-out pixel, and a translucent pixel left as it
\* was in the row below the region.
C6_Witness ==
    /\ pc = "done"
    /\ includeBackground
    /\ imageBuffer.channels = 4
    /\ imageBuffer.width = 2 /\ imageBuffer.height = 2
    /\ Len(regions) = 1
    /\ InsideSomeRegion(1, 0)
    /\ ~InsideSomeRegion(0, 1)
    /\ result[1].backgroundImage[1].pixels[2][4] = 0
    /\ result[1].backgroundImage[1].pixels[3][4] = 128

\* C7: the masked buffer is the same for every permutation of the region
\* list and when any region of it is repeated, and masking the masked buffer
\* again changes nothing.
C7_MaskOrderInsensitive ==
    (pc \in {"encode", "done"} /\ includeBackground) =>
        LET raw == extractRawPixels(imageBuffer)
            n == Len(regions)
        IN  /\ \A f \in Permutations(1..n) :
                  generateBackgroundData(raw, [k \in 1..n |-> regions[f[k]]],
                                         dims.width, dims.height) = data
            /\ \A i \in 1..n :
                  /\ generateBackgroundData(raw, Append(regions, regions[i]),
                                            dims.width, dims.height) = data
                  /\ generateBackgroundData(raw, <<regions[i]>> \o regions,
                                            dims.width, dims.height) = data
            /\ generateBackgroundData(data, regions, dims.width, dims.height) = data

\* Two overlapping regions of different extent have been masked.
C7_Witness ==
    /\ pc = "encode"
    /\ Len(regions) = 2
    /\ regions[1].position = regions[2].position
    /\ regions[1].size # regions[2].size
    /\ data # extractRawPixels(imageBuffer)

\* C8: the crop of a region has the region's width and height and its pixel
\* (cx, cy) is the source pixel (x + cx, y + cy), channel for channel: this
\* holds of the value each extraction fulfils with and of every crop of the
\* returned result, with or without a background, so the crop is a function
\* of the source and of its own region alone.
C8_CropIsSourceWindow ==
    /\ \A i \in 1..Len(tasks) :
          tasks[i].state = "fulfilled" =>
              /\ IsCropOf(tasks[i].value[1], imageBuffer, regions[i])
              /\ tasks[i].value[1].channels = imageBuffer.channels
    /\ result # None =>
          \A i \in 1..Len(regions) :
              IsCropOf(result[1].croppedImages[i], imageBuffer, regions[i])

\* A result with a background: the first pixel of the source is transparent
\* in the background and translucent, as in the source, in the first crop;
\* the second crop is taken off the origin.
C8_Witness ==
    /\ pc = "done"
    /\ includeBackground
    /\ imageBuffer.channels = 4
    /\ Len(regions) = 2
    /\ regions[2].position.x # regions[2].position.y
    /\ regions[1].position = [x |-> 0, y |-> 0]
    /\ result[1].backgroundImage[1].pixels[1][4] = 0
    /\ result[1].croppedImages[1].pixels[1][4] = 128

(***************************************************************************)
(* Properties of removeBackground                                          *)
(***************************************************************************)
\* Squared distance in RGB between pixel p (1-based) of the source and the
\* target colour of the request.
Dist2(p) ==
    LET px == imageBuffer.pixels[p]
        t == options[1].backgroundColor
    IN  (px[1] - t.r) * (px[1] - t.r) + (px[2] - t.g) * (px[2] - t.g)
            + (px[3] - t.b) * (px[3] - t.b)

\* The tolerance the request asks for, 0 when it gives none.
Tolerance == IF options[1].tolerance = None THEN 0 ELSE options[1].tolerance[1]

\* Pixel p matches the target: equal in r, g and b at tolerance 0, within
\* distance T (inclusive) at tolerance T > 0.
Matches(p) ==
    IF Tolerance = 0
    THEN /\ imageBuffer.pixels[p][1] = options[1].backgroundColor.r
         /\ imageBuffer.pixels[p][2] = options[1].backgroundColor.g
         /\ imageBuffer.pixels[p][3] = options[1].backgroundColor.b
    ELSE Dist2(p) <= Tolerance * Tolerance

\* C9: removeBackground assigns alpha 0 to a pixel exactly when the pixel
\* matches the target: equality of r, g and b at tolerance 0, squared
\* distance <= T^2 at tolerance T > 0; a pixel that does not match keeps the
\* alpha it had.
C9_AlphaZeroIffMatch ==
    data # <<>> =>
        \A p \in 1..Len(imageBuffer.pixels) :
            /\ (4 * (p - 1) + 3) \in writes <=> Matches(p)
            /\ Matches(p) => data[4 * p] = 0
            /\ ~Matches(p) => data[4 * p] = SourceAlpha(p)
            /\ result # None => result[1].pixels[p][4] = data[4 * p]

\* At tolerance 1 a pixel at distance exactly 1 was removed and a pixel at
\* squared distance 2 was retained.
C9_Witness ==
    /\ pc = "done"
    /\ Tolerance = 1
    /\ \E p, q \in 1..Len(imageBuffer.pixels) :
          /\ Dist2(p) = 1
          /\ SourceAlpha(p) = 255
          /\ result[1].pixels[p][4] = 0
          /\ Dist2(q) = 2
          /\ result[1].pixels[q][4] = 255

\* C10: the output of removeBackground has the width, height and pixel count
\* of the source and an alpha channel; every pixel keeps the R, G and B of
\* the decoded input, and every pixel that does not match keeps its alpha.
C10_OnlyAlphaOfMatchedChanges ==
    /\ data # <<>> =>
          /\ Len(data) = 4 * Len(imageBuffer.pixels)
          /\ \A p \in 1..Len(imageBuffer.pixels) :
                \A c \in 1..3 : data[4 * (p - 1) + c] = imageBuffer.pixels[p][c]
    /\ pc = "done" =>
          /\ result # None
          /\ result[1].width = imageBuffer.width
          /\ result[1].height = imageBuffer.height
          /\ result[1].channels = 4
          /\ Len(result[1].pixels) = Len(imageBuffer.pixels)
          /\ \A p \in 1..Len(imageBuffer.pixels) :
                /\ \A c \in 1..3 : result[1].pixels[p][c] = imageBuffer.pixels[p][c]
                /\ ~Matches(p) => result[1].pixels[p][4] = SourceAlpha(p)

\* An output in which one pixel was removed and a translucent pixel that did
\* not match kept its alpha of 128.
C10_Witness ==
    /\ pc = "done"
    /\ imageBuffer.channels = 4
    /\ \E p, q \in 1..Len(imageBuffer.pixels) :
          /\ Matches(p)
          /\ imageBuffer.pixels[p][4] = 255
          /\ result[1].pixels[p][4] = 0
          /\ ~Matches(q)
          /\ imageBuffer.pixels[q][4] = 128
          /\ result[1].pixels[q][4] = 128

(***************************************************************************)
(* ColorParserService (src/unnamed/part_008, lines 1-150)                  *)
(*                                                                         *)
(* A string is a sequence of one-character strings, so that trimming,      *)
(* lower-casing, the hex digits, the regular expression and the tokens of  *)
(* rgb() are computed character by character.  A JavaScript number that    *)
(* may be NaN is <<>> (NaN) or <<n>>.  A call either returns a value or    *)
(* throws; parseColor and its helpers only throw BadRequestException.      *)
(***************************************************************************)
UpperCaseLetters ==
    <<"A", "B", "C", "D", "E", "F", "G", "H", "I", "J", "K", "L", "M",
      "N", "O", "P", "Q", "R", "S", "T", "U", "V", "W", "X", "Y", "Z">>

LowerCaseLetters ==
    <<"a", "b", "c", "d", "e", "f", "g", "h", "i", "j", "k", "l", "m",
      "n", "o", "p", "q", "r", "s", "t", "u", "v", "w", "x", "y", "z">>

\* String.prototype.toLowerCase, one character and a whole string.
lowerChar(c) ==
    LET at == {i \in DOMAIN UpperCaseLetters : UpperCaseLetters[i] = c}
    IN  IF at = {} THEN c ELSE LowerCaseLetters[CHOOSE i \in at : TRUE]

toLowerCase(s) == [i \in 1..Len(s) |-> lowerChar(s[i])]

\* The white space of the model: what trim() strips and \s matches.
WhiteSpace == {" ", "\t"}

RECURSIVE trimStart(_)
trimStart(s) ==
    IF s # <<>> /\ Head(s) \in WhiteSpace THEN trimStart(Tail(s)) ELSE s

RECURSIVE trimEnd(_)
trimEnd(s) ==
    IF s # <<>> /\ s[Len(s)] \in WhiteSpace
    THEN trimEnd(SubSeq(s, 1, Len(s) - 1))
    ELSE s

\* String.prototype.trim
trim(s) == trimEnd(trimStart(s))

\* normalizeColorString without the lower-casing.
normalizeTrimOnly(input) == trim(input)

\* input.trim().toLowerCase()
normalizeColorString(input) == toLowerCase(trim(input))

\* String.prototype.startsWith
startsWith(s, prefix) ==
    Len(s) >= Len(prefix) /\ SubSeq(s, 1, Len(prefix)) = prefix

NaN == <<>>

\* What a call did: it returned value[1], or it threw BadRequestException
\* with the given message.
Return(v) == [threw |-> FALSE, value |-> <<v>>, message |-> "none"]
Raise(m) == [threw |-> TRUE, value |-> <<>>, message |-> m]

\* The own properties of the object literal namedColors.
namedColorTable ==
    << [name |-> <<"w", "h", "i", "t", "e">>, color |-> RGB(255, 255, 255)],
       [name |-> <<"b", "l", "a", "c", "k">>, color |-> RGB(0, 0, 0)],
       [name |-> <<"r", "e", "d">>, color |-> RGB(255, 0, 0)],
       [name |-> <<"g", "r", "e", "e", "n">>, color |-> RGB(0, 255, 0)],
       [name |-> <<"b", "l", "u", "e">>, color |-> RGB(0, 0, 255)] >>

\* namedColors is a plain object: a property it does not own is looked up
\* on Object.prototype.  These are the inherited properties (all of them
\* functions or objects, hence truthy); only the ones spelled in lower case
\* can equal a normalized string.
ObjectPrototypeKeys ==
    { <<"c", "o", "n", "s", "t", "r", "u", "c", "t", "o", "r">>,
      <<"_", "_", "p", "r", "o", "t", "o", "_", "_">>,
      <<"t", "o", "S", "t", "r", "i", "n", "g">>,
      <<"v", "a", "l", "u", "e", "O", "f">>,
      <<"h", "a", "s", "O", "w", "n", "P", "r", "o", "p", "e", "r", "t", "y">> }

\* this.namedColors[key]: <<>> when undefined, otherwise <<value>>.  An
\* inherited property is not an RGBColor: it has no r, g, b.
namedColors(key) ==
    IF \E i \in DOMAIN namedColorTable : namedColorTable[i].name = key
    THEN <<namedColorTable[CHOOSE i \in DOMAIN namedColorTable :
                              namedColorTable[i].name = key].color>>
    ELSE IF key \in ObjectPrototypeKeys
    THEN <<[inherited |-> key]>>
    ELSE <<>>

HexDigits ==
    <<"0", "1", "2", "3", "4", "5", "6", "7", "8", "9", "a", "b", "c", "d", "e", "f">>

isHexDigit(c) == \E i \in DOMAIN HexDigits : HexDigits[i] = lowerChar(c)

hexValue(c) == (CHOOSE i \in DOMAIN HexDigits : HexDigits[i] = lowerChar(c)) - 1

\* The longest run of hex digits at the start of s: <<its length, its value>>.
RECURSIVE hexPrefix(_, _, _)
hexPrefix(s, n, acc) ==
    IF s # <<>> /\ isHexDigit(Head(s))
    THEN hexPrefix(Tail(s), n + 1, acc * 16 + hexValue(Head(s)))
    ELSE <<n, acc>>

\* parseInt(string, 16): leading white space is skipped, then an optional
\* sign and an optional 0x, then the longest run of hex digits is read and
\* whatever follows it is ignored; NaN when that run is empty.
parseInt16(string) ==
    LET s1 == trimStart(string)
        negative == s1 # <<>> /\ Head(s1) = "-"
        s2 == IF s1 # <<>> /\ Head(s1) \in {"+", "-"} THEN Tail(s1) ELSE s1
        s3 == IF startsWith(s2, <<"0", "x">>) \/ startsWith(s2, <<"0", "X">>)
              THEN SubSeq(s2, 3, Len(s2))
              ELSE s2
        run == hexPrefix(s3, 0, 0)
    IN  IF run[1] = 0 THEN NaN
        ELSE IF negative THEN <<-run[2]>> ELSE <<run[2]>>

\* validateRGB: r, g, b are numbers, possibly NaN.
validateRGB(r, g, b) ==
    IF \/ r = NaN \/ g = NaN \/ b = NaN
       \/ r[1] < 0 \/ r[1] > 255
       \/ g[1] < 0 \/ g[1] > 255
       \/ b[1] < 0 \/ b[1] > 255
    THEN Raise("Invalid RGB values")
    ELSE Return(RGB(r[1], g[1], b[1]))

\* String.prototype.replace(c, ''): the first occurrence of c is removed.
RECURSIVE removeFirst(_, _)
removeFirst(s, c) ==
    IF s = <<>> THEN s
    ELSE IF Head(s) = c THEN Tail(s)
    ELSE <<Head(s)>> \o removeFirst(Tail(s), c)

parseHex(hex) ==
    LET cleanHex == removeFirst(hex, "#")
    IN  IF Len(cleanHex) = 3
        THEN validateRGB(parseInt16(<<cleanHex[1], cleanHex[1]>>),
                         parseInt16(<<cleanHex[2], cleanHex[2]>>),
                         parseInt16(<<cleanHex[3], cleanHex[3]>>))
        ELSE IF Len(cleanHex) = 6
        THEN validateRGB(parseInt16(SubSeq(cleanHex, 1, 2)),
                         parseInt16(SubSeq(cleanHex, 3, 4)),
                         parseInt16(SubSeq(cleanHex, 5, 6)))
        ELSE Raise("Invalid hex color format")

isDigit(c) == \E i \in 1..10 : HexDigits[i] = c

\* The longest run of decimal digits at the start of s: <<length, value>>.
RECURSIVE decPrefix(_, _, _)
decPrefix(s, n, acc) ==
    IF s # <<>> /\ isDigit(Head(s))
    THEN decPrefix(Tail(s), n + 1, acc * 10 + hexValue(Head(s)))
    ELSE <<n, acc>>

RECURSIVE Pow10(_)
Pow10(k) == IF k = 0 THEN 1 ELSE 10 * Pow10(k - 1)

\* The number a decimal literal spells: the digits before and after the
\* point (each a pair <<count, value>>) and the exponent, as the exact
\* fraction num / den; NaN when it has no digit.
floatFromParts(negative, int, frac, exponent) ==
    LET mantissa == int[2] * Pow10(frac[1]) + frac[2]
        scale == frac[1] - exponent
        magnitude == IF scale <= 0
                     THEN [num |-> mantissa * Pow10(-scale), den |-> 1]
                     ELSE [num |-> mantissa, den |-> Pow10(scale)]
    IN  IF int[1] + frac[1] = 0 THEN NaN
        ELSE IF negative
        THEN <<[num |-> -magnitude.num, den |-> magnitude.den]>>
        ELSE <<magnitude>>

\* The exponent part at the start of s (e or E, a sign, digits): its value,
\* 0 when there is none.
floatExponent(s) ==
    LET hasE == s # <<>> /\ Head(s) \in {"e", "E"}
        s5 == IF hasE THEN Tail(s) ELSE s
        expNegative == s5 # <<>> /\ Head(s5) = "-"
        s6 == IF s5 # <<>> /\ Head(s5) \in {"+", "-"} THEN Tail(s5) ELSE s5
        expDigits == decPrefix(s6, 0, 0)
    IN  IF ~hasE THEN 0
        ELSE IF expNegative THEN -expDigits[2] ELSE expDigits[2]

\* The literal from the point on: s is what follows the digits int.
floatAfterInt(negative, int, s) ==
    LET hasPoint == s # <<>> /\ Head(s) = "."
        frac == IF hasPoint THEN decPrefix(Tail(s), 0, 0) ELSE <<0, 0>>
        s4 == IF hasPoint THEN SubSeq(s, frac[1] + 2, Len(s)) ELSE s
    IN  floatFromParts(negative, int, frac, floatExponent(s4))

\* The literal after its sign.
floatUnsigned(negative, s) ==
    LET int == decPrefix(s, 0, 0)
    IN  floatAfterInt(negative, int, SubSeq(s, int[1] + 1, Len(s)))

\* parseFloat(string): the longest prefix that is a decimal literal
\*   [+-] digits [. digits] [e [+-] digits]
\* is read and whatever follows it is ignored; NaN when there is no digit.
\* The value is the exact fraction num / den, den a power of ten.  (The
\* literal Infinity has a capital I, which a lower-cased string cannot hold.)
parseFloat(string) ==
    LET s1 == trimStart(string)
    IN  floatUnsigned(s1 # <<>> /\ Head(s1) = "-",
                      IF s1 # <<>> /\ Head(s1) \in {"+", "-"} THEN Tail(s1) ELSE s1)

\* Math.round of a fraction: the nearest integer, a half goes up (towards
\* +Infinity); NaN stays NaN.
MathRound(v) ==
    IF v = NaN THEN NaN ELSE <<(2 * v[1].num + v[1].den) \div (2 * v[1].den)>>

\* The match of /rgba?\(([^)]+)\)/ that starts at position i of s: <<>>
\* when there is none, otherwise <<capture group 1>>.  [^)]+ is greedy and
\* stops at the first ")", which must exist and leave it at least one
\* character.
rgbMatchAt(s, i) ==
    LET open == IF i + 3 <= Len(s) /\ s[i + 3] = "a" THEN i + 4 ELSE i + 3
        closes == {k \in (open + 1)..Len(s) : s[k] = ")"}
        close == CHOOSE k \in closes : \A m \in closes : k <= m
    IN  IF /\ startsWith(SubSeq(s, i, Len(s)), <<"r", "g", "b">>)
           /\ open <= Len(s)
           /\ s[open] = "("
           /\ closes # {}
           /\ close > open + 1
        THEN <<SubSeq(s, open + 1, close - 1)>>
        ELSE <<>>

\* rgbString.match(/rgba?\(([^)]+)\)/): the leftmost match; the pattern is
\* not anchored.
rgbMatch(s) ==
    LET starts == {i \in 1..Len(s) : rgbMatchAt(s, i) # <<>>}
    IN  IF starts = {} THEN <<>>
        ELSE rgbMatchAt(s, CHOOSE i \in starts : \A m \in starts : i <= m)

\* What /[\s,]+/ matches one character of.
Separators == WhiteSpace \cup {","}

\* String.prototype.split(/[\s,]+/): the pieces between the runs of
\* separators; a run at the start or the end leaves an empty piece there.
RECURSIVE splitFrom(_, _, _, _)
splitFrom(s, pieces, cur, inSeparator) ==
    IF s = <<>> THEN Append(pieces, cur)
    ELSE IF Head(s) \in Separators
    THEN IF inSeparator
         THEN splitFrom(Tail(s), pieces, cur, TRUE)
         ELSE splitFrom(Tail(s), Append(pieces, cur), <<>>, TRUE)
    ELSE splitFrom(Tail(s), pieces, Append(cur, Head(s)), FALSE)

split(s) == splitFrom(s, <<>>, <<>>, FALSE)

\* match[1].split(/[\s,]+/).map(trim).filter(v => v.length > 0): the tokens.
rgbTokens(content) ==
    LET pieces == split(content)
    IN  SelectSeq([i \in 1..Len(pieces) |-> trim(pieces[i])],
                  LAMBDA v : Len(v) > 0)

\* ... .map(v => parseFloat(v))
rgbValues(content) ==
    LET tokens == rgbTokens(content)
    IN  [i \in 1..Len(tokens) |-> parseFloat(tokens[i])]

\* parseRgb that also refuses a NaN among the values after the third.
parseRgbEveryValueChecked(rgbString) ==
    LET match == rgbMatch(rgbString)
    IN  IF match = <<>> THEN Raise("Invalid RGB format")
        ELSE LET values == rgbValues(match[1])
             IN  IF Len(values) < 3
                 THEN Raise("RGB format requires at least 3 values")
                 ELSE IF \E i \in 1..Len(values) : values[i] = NaN
                 THEN Raise("Invalid RGB values")
                 ELSE validateRGB(MathRound(values[1]), MathRound(values[2]),
                                  MathRound(values[3]))

parseRgb(rgbString) ==
    LET match == rgbMatch(rgbString)
    IN  IF match = <<>> THEN Raise("Invalid RGB format")
        ELSE LET values == rgbValues(match[1])
             IN  IF Len(values) < 3
                 THEN Raise("RGB format requires at least 3 values")
                 ELSE validateRGB(MathRound(values[1]), MathRound(values[2]),
                                  MathRound(values[3]))

parseColor(string) ==
    LET normalized == normalizeColorString(string)
        named == namedColors(normalized)
    IN  IF named # <<>>
        THEN Return(named[1])
        ELSE IF startsWith(normalized, <<"#">>) THEN parseHex(normalized)
        ELSE IF startsWith(normalized, <<"r", "g", "b">>) THEN parseRgb(normalized)
        ELSE Raise("Invalid color format")

\* isValidColor deciding on the first character alone.
isValidColorByPrefix(string) ==
    LET normalized == normalizeColorString(string)
    IN  \/ namedColors(normalized) # <<>>
        \/ startsWith(normalized, <<"#">>)
        \/ startsWith(normalized, <<"r", "g", "b">>)

\* try { this.parseColor(colorString); return true; } catch { return false; }
isValidColor(string) == ~parseColor(string).threw

(***************************************************************************)
(* One call of parseColor or of isValidColor.  Both are synchronous: the   *)
(* whole call is one step.                                                 *)
(***************************************************************************)
\* Bounds of the color strings of the model.
MaxHexLen == 6
MaxTokens == 4

\* String.prototype.toUpperCase, used to spell the inputs.
upperChar(c) ==
    IF \E i \in DOMAIN LowerCaseLetters : LowerCaseLetters[i] = c
    THEN UpperCaseLetters[CHOOSE i \in DOMAIN LowerCaseLetters : LowerCaseLetters[i] = c]
    ELSE c

toUpperCase(s) == [i \in 1..Len(s) |-> upperChar(s[i])]

capitalize(s) == IF s = <<>> THEN s ELSE <<upperChar(Head(s))>> \o Tail(s)

\* Words offered as named colors: the five of the table, near misses and
\* property names of Object.prototype.
WordVals ==
    { <<"w", "h", "i", "t", "e">>, <<"b", "l", "a", "c", "k">>, <<"r", "e", "d">>, <<"g", "r", "e", "e", "n">>, <<"b", "l", "u", "e">>,
      <<"w", "h", "i", "t">>, <<"r", "e", "d", "s">>, <<"i", "n", "v", "a", "l", "i", "d">>, <<"c", "o", "n", "s", "t", "r", "u", "c", "t", "o", "r">>, <<"_", "_", "p", "r", "o", "t", "o", "_", "_">>,
      <<"v", "a", "l", "u", "e", "o", "f">> }

Spellings(s) == {s, toUpperCase(s), capitalize(s)}

Paddings(s) ==
    {s, <<" ">> \o s, s \o <<"\t">>, <<" ">> \o s \o <<" ">>,
     <<" ", "\t">> \o s \o <<" ">>}

NamedInputs == UNION {UNION {Paddings(t) : t \in Spellings(w)} : w \in WordVals}

\* "#" followed by up to MaxHexLen characters.
HexChars == {"0", "F", "g"}

HexInputs ==
    {<<"#">> \o s : s \in UNION {[1..n -> HexChars] : n \in 0..MaxHexLen}}

\* rgb(...) and rgba(...) around up to MaxTokens tokens.
TokenVals == { <<"0">>, <<"2", "5", "5">>, <<"2", "5", "6">>, <<"1", "2", "7", ".", "5">>, <<"x">> }

SeparatorVals == {<<",">>, <<" ">>}

RECURSIVE join(_, _)
join(tokens, sep) ==
    IF tokens = <<>> THEN <<>>
    ELSE IF Len(tokens) = 1 THEN tokens[1]
    ELSE tokens[1] \o sep \o join(Tail(tokens), sep)

rgbText(prefix, tokens, sep) == prefix \o <<"(">> \o join(tokens, sep) \o <<")">>

TokenLists == UNION {[1..n -> TokenVals] : n \in 0..MaxTokens}

RgbInputs ==
    {rgbText(p, ts, sep) : p \in {<<"r", "g", "b">>, <<"r", "g", "b", "a">>},
                           ts \in TokenLists, sep \in SeparatorVals}

\* Strings chosen for what parseInt, parseFloat, the regular expression and
\* split do at their edges.
EdgeInputs ==
    { <<>>, <<" ", " ">>, <<"t", "o", "S", "t", "r", "i", "n", "g">>, <<"#", "+", "f", "+", "f", "+", "f">>, <<"#", " ", "f", " ", "f", " ", "f">>, <<"#", "0", "x", "0", "x", "0", "x">>,
      <<"#", "-", "f", "0", "0", "0", "0">>, <<"#", "#", "f", "f", "f">>, <<"#", "F", "f", "F">>, <<" ", "#", "0", "0", "0", "0", "F", "F", " ">>,
      <<"r", "g", "b", "(", "1", ",", "2", ",", "3">>, <<"r", "g", "b", "(", "(", "1", ",", "2", ",", "3", ")">>, <<"r", "g", "b", "(", "1", ",", "2", ",", "3", ")", ")">>, <<"r", "g", "b", "x", " ", "r", "g", "b", "(", "1", ",", "2", ",", "3", ")">>,
      <<"r", "g", "b", " ", "1", ",", "2", ",", "3">>, <<"r", "g", "b", "(", "1", "e", "2", ",", " ", ".", "5", ",", " ", "1", "2", "x", ")">>, <<" ", "R", "G", "B", "(", " ", "1", " ", ",", " ", "2", " ", ",", " ", "3", " ", ")", " ">>,
      <<"r", "g", "b", "(", ",", "1", ",", ",", "2", ",", "3", ",", ")">>, <<"r", "g", "b", "(", "2", "5", "4", ".", "5", ",", "0", ",", "0", ")">>, <<"r", "g", "b", "(", "2", "5", "5", ".", "5", ",", "0", ",", "0", ")">>,
      <<"r", "g", "b", "(", "-", "0", ".", "5", ",", "0", ",", "0", ")">>, <<"r", "g", "b", "(", "-", "0", ".", "6", ",", "0", ",", "0", ")">>, <<"r", "g", "b", "(", "1", "\t", "2", "\t", "3", ")">>,
      <<"r", "g", "b", "a", "(", "2", "5", "5", ",", " ", "2", "5", "5", ",", " ", "2", "5", "5", ",", " ", "1", ".", "0", ")">>, <<"r", "g", "b", "a", "(", "2", "5", "5", ",", "2", "5", "5", ",", "2", "5", "5", ",", "0", ".", "5", ")">>,
      <<"r", "g", "b", "(", "1", ".", ",", "+", "2", ",", "3", "e", "0", ")">>, <<"r", "g", "b", "(", ".", ",", "1", ",", "2", ")">>, <<"r", "g", "b", "(", "1", "e", ",", "2", "e", "+", ",", "3", "e", "-", "1", ")">> }

ColorInputs == NamedInputs \cup HexInputs \cup RgbInputs \cup EdgeInputs

ColorInit ==
    /\ colorString \in ColorInputs
    /\ pc \in {"parseColor", "isValidColor"}
    /\ result = None
    /\ error = NoException
    /\ imageBuffer = NoDimsImage
    /\ regions = <<>>
    /\ includeBackground = FALSE
    /\ options = None
    /\ dims = [width |-> 0, height |-> 0]
    /\ tasks = <<>>
    /\ completionOrder = <<>>
    /\ croppedImages = None
    /\ data = <<>>
    /\ writes = {}
    /\ geminiBoundingBoxes = <<>>
    /\ objectDescriptions = <<>>
    /\ imageSize = [width |-> 0, height |-> 0]
    /\ rectangle = [x |-> 0, y |-> 0, w |-> 0, h |-> 0]
    /\ request = NoRequest
    /\ response = None
    /\ NoProviderCall
    /\ env = NoEnv

BadRequest(message) ==
    [exception |-> "BadRequestException", kind |-> message,
     index |-> -1, rule |-> "none"]

\* parseColor(colorString) returns or throws.
ParseColorCall ==
    /\ pc = "parseColor"
    /\ LET outcome == parseColor(colorString)
       IN  IF outcome.threw
           THEN /\ error' = BadRequest(outcome.message)
                /\ pc' = "parseColorFailed"
                /\ result' = result
           ELSE /\ result' = Some(outcome.value[1])
                /\ pc' = "parseColorDone"
                /\ error' = error
    /\ UNCHANGED <<colorString, geminiBoundingBoxes, objectDescriptions,
                   imageSize, rectangle, request, response, env, providerState,
                   imageBuffer, regions, includeBackground, options,
                   dims, tasks, completionOrder, croppedImages, data, writes>>

\* isValidColor(colorString) returns; its catch block swallows what
\* parseColor throws.
IsValidColorReturns ==
    /\ pc = "isValidColor"
    /\ result' = Some(isValidColor(colorString))
    /\ pc' = "isValidColorDone"
    /\ UNCHANGED <<error, colorString, geminiBoundingBoxes, objectDescriptions,
                   imageSize, rectangle, request, response, env, providerState,
                   imageBuffer, regions, includeBackground, options,
                   dims, tasks, completionOrder, croppedImages, data, writes>>

ColorNext ==
    \/ ParseColorCall
    \/ IsValidColorReturns

ColorSpec == ColorInit /\ [][ColorNext]_vars

(***************************************************************************)
(* Properties of ColorParserService                                        *)
(***************************************************************************)
\* A parseColor call has ended.
ParseColorEnded == pc \in {"parseColorDone", "parseColorFailed"}

\* The argument of the call after trimming and lower-casing.
Normalized == trim(toLowerCase(colorString))

NamedColorNames == {namedColorTable[i].name : i \in DOMAIN namedColorTable}

\* v is an { r, g, b } object with three integer channels.
IsRGBTriple(v) ==
    /\ DOMAIN v = {"r", "g", "b"}
    /\ v.r \in Int /\ v.g \in Int /\ v.b \in Int

\* The call of this state ended as the outcome o does.
SameOutcome(o) ==
    IF pc = "parseColorDone"
    THEN ~o.threw /\ o.value[1] = result[1]
    ELSE o.threw

\* C11: every parseColor call either returns an { r, g, b } triple or fails
\* with the invalid-color error (BadRequestException), and it fails for
\* every string that, trimmed and lower-cased, is none of white, black, red,
\* green, blue, does not start with "#" and does not start with "rgb(" or
\* "rgba(".
C11_TripleOrInvalidColor ==
    ParseColorEnded =>
        /\ pc = "parseColorDone" => IsRGBTriple(result[1])
        /\ pc = "parseColorFailed" => error.exception = "BadRequestException"
        /\ ( /\ Normalized \notin NamedColorNames
             /\ ~startsWith(Normalized, <<"#">>)
             /\ ~startsWith(Normalized, <<"r", "g", "b", "(">>)
             /\ ~startsWith(Normalized, <<"r", "g", "b", "a", "(">>) )
           => pc = "parseColorFailed"

HexDigitChars == {HexDigits[i] : i \in DOMAIN HexDigits}

\* C12: a string with a leading "#" is accepted iff what follows is exactly
\* 3 or exactly 6 hex digits; #RGB gives 17 * digit per channel, #RRGGBB the
\* two-digit value per channel.
C12_HexAcceptedIffHexDigits ==
    LET rest == Tail(Normalized)
        allHex == \A i \in 1..Len(rest) : rest[i] \in HexDigitChars
        d(i) == hexValue(rest[i])
    IN  (ParseColorEnded /\ startsWith(Normalized, <<"#">>)) =>
            /\ pc = "parseColorDone" <=> (Len(rest) \in {3, 6} /\ allHex)
            /\ (pc = "parseColorDone" /\ Len(rest) = 3 /\ allHex)
                   => result[1] = RGB(17 * d(1), 17 * d(2), 17 * d(3))
            /\ (pc = "parseColorDone" /\ Len(rest) = 6 /\ allHex)
                   => result[1] = RGB(16 * d(1) + d(2), 16 * d(3) + d(4),
                                      16 * d(5) + d(6))

\* The first three tokens of an rgb()/rgba() text are three numbers that
\* round into [0,255].
ThreeChannelTokens(tokens) ==
    /\ Len(tokens) >= 3
    /\ \A i \in 1..3 :
           /\ parseFloat(tokens[i]) # NaN
           /\ MathRound(parseFloat(tokens[i]))[1] \in 0..255

\* C13: whatever parseColor returns, on the named, hex or rgb path, has r, g
\* and b integers in [0,255]; an rgb()/rgba() input with fewer than three
\* tokens, or whose first three tokens are not numbers or round outside
\* [0,255], fails.
C13_ChannelsInByteRange ==
    /\ pc = "parseColorDone" =>
           /\ IsRGBTriple(result[1])
           /\ result[1].r \in 0..255
           /\ result[1].g \in 0..255
           /\ result[1].b \in 0..255
    /\ ( /\ ParseColorEnded
         /\ Normalized \notin NamedColorNames
         /\ startsWith(Normalized, <<"r", "g", "b">>)
         /\ rgbMatch(Normalized) # <<>>
         /\ ~ThreeChannelTokens(rgbTokens(rgbMatch(Normalized)[1])) )
       => pc = "parseColorFailed"

\* The tokens between the parentheses of an rgb()/rgba() text.
TokensOf(s) == IF rgbMatch(s) = <<>> THEN <<>> ELSE rgbTokens(rgbMatch(s)[1])

\* The texts that differ from rgbText(p, tokens, sep) only in the fourth
\* token: it is dropped, or replaced by another token.
AlphaVariants(p, tokens, sep) ==
    {rgbText(p, SubSeq(tokens, 1, 3) \o SubSeq(tokens, 5, Len(tokens)), sep)}
        \cup {rgbText(p, SubSeq(tokens, 1, 3) \o <<alpha>>
                            \o SubSeq(tokens, 5, Len(tokens)), sep) :
                  alpha \in TokenVals}

\* C14: the fourth (alpha) token of an rgb()/rgba() input never affects the
\* outcome: every input that agrees with it on the first three tokens and
\* differs only in the presence or the value of the fourth token gives the
\* same triple, or fails as well.
C14_AlphaNeverMatters ==
    (ParseColorEnded /\ Len(TokensOf(colorString)) >= 4) =>
        LET tokens == TokensOf(colorString)
        IN  \A p \in {<<"r", "g", "b">>, <<"r", "g", "b", "a">>}, sep \in SeparatorVals :
                colorString = rgbText(p, tokens, sep) =>
                    \A other \in AlphaVariants(p, tokens, sep) :
                        SameOutcome(parseColor(other))

\* A call returned { 0, 255, 128 } although its alpha token is not a number.
C14_Witness ==
    /\ pc = "parseColorDone"
    /\ colorString = <<"r", "g", "b", "a", "(", "0", ",", "2", "5", "5", ",", "1", "2", "7", ".", "5", ",", "x", ")">>
    /\ result = Some(RGB(0, 255, 128))

\* C15: isValidColor never throws; it returns true iff parseColor succeeds
\* on the same input and false iff parseColor fails.
C15_IsValidColorMirrorsParseColor ==
    pc = "isValidColorDone" =>
        /\ error = NoException
        /\ result[1] \in BOOLEAN
        /\ result[1] = TRUE <=> ~parseColor(colorString).threw
        /\ result[1] = FALSE <=> parseColor(colorString).threw

\* isValidColor('#GGG') returned false.
C15_Witness ==
    /\ pc = "isValidColorDone"
    /\ colorString = <<"#", "g", "g", "g">>
    /\ result = Some(FALSE)
    /\ error = NoException

\* C16: parseColor does not depend on the case of its input nor on the white
\* space around it: parseColor(s) and parseColor(trim(lowercase(s))) return
\* equal triples or both fail; 'WHITE', 'white' and ' White ' give
\* {255,255,255}.
C16_CaseAndSpaceInsensitive ==
    ParseColorEnded =>
        /\ SameOutcome(parseColor(Normalized))
        /\ colorString \in {<<"W", "H", "I", "T", "E">>, <<"w", "h", "i", "t", "e">>, <<" ", "W", "h", "i", "t", "e", " ">>}
               => pc = "parseColorDone" /\ result = Some(RGB(255, 255, 255))

\* ' White ' was parsed to white.
C16_Witness ==
    /\ pc = "parseColorDone"
    /\ colorString = <<" ", "W", "h", "i", "t", "e", " ">>
    /\ result = Some(RGB(255, 255, 255))

(***************************************************************************)
(* BoundingBoxTransformService (src/unnamed/part_009)                      *)
(*                                                                         *)
(* transform computes Math.round((xMin / 1000) * imageSize.width) in IEEE  *)
(* 754 double precision: the quotient and the product are each rounded to  *)
(* 53 significant bits (to nearest, ties to even) before Math.round sees   *)
(* the result.  A nonzero double is [negative, bits, ulp]: bits are its 53 *)
(* significant bits, most significant first, and its magnitude is the      *)
(* integer they spell times 2^ulp.  Zero has no bits.                      *)
(***************************************************************************)

Precision == 53

DoubleZero == [negative |-> FALSE, bits |-> <<>>, ulp |-> 0]

\* 2^k for k in 0..30.
PowersOfTwo ==
    <<1, 2, 4, 8, 16, 32, 64, 128, 256, 512, 1024, 2048, 4096, 8192,
      16384, 32768, 65536, 131072, 262144, 524288, 1048576, 2097152,
      4194304, 8388608, 16777216, 33554432, 67108864, 134217728,
      268435456, 536870912, 1073741824>>

Pow2(k) == PowersOfTwo[k + 1]

\* The integer a bit string (most significant bit first) spells.
RECURSIVE bitsToInt(_, _)
bitsToInt(bits, acc) ==
    IF bits = <<>> THEN acc ELSE bitsToInt(Tail(bits), 2 * acc + Head(bits))

\* bits + 1 as a bit string of the same length, and the carry out of it:
\* the lowest 0 becomes 1 and the 1s below it become 0.
increment(bits) ==
    LET zeros == {i \in 1..Len(bits) : bits[i] = 0}
        low == CHOOSE i \in zeros : \A j \in zeros : j <= i
    IN  IF zeros = {}
        THEN [bits |-> [i \in 1..Len(bits) |-> 0], carry |-> 1]
        ELSE [bits |-> [i \in 1..Len(bits) |->
                            IF i < low THEN bits[i] ELSE IF i = low THEN 1 ELSE 0],
              carry |-> 0]

\* Round a bit string (most significant bit 1) whose last bit weighs 2^ulp
\* to Precision bits: to nearest, ties to even.  sticky tells that a nonzero
\* remainder lies below the string.
roundToPrecision(negative, bits, ulp, sticky) ==
    IF Len(bits) <= Precision
    THEN [negative |-> negative,
          bits |-> bits \o [i \in 1..(Precision - Len(bits)) |-> 0],
          ulp |-> ulp - (Precision - Len(bits))]
    ELSE LET kept == SubSeq(bits, 1, Precision)
             guard == bits[Precision + 1]
             rest == sticky \/ \E i \in (Precision + 2)..Len(bits) : bits[i] = 1
             up == guard = 1 /\ (rest \/ kept[Precision] = 1)
             next == increment(kept)
             cut == Len(bits) - Precision
         IN  IF ~up THEN [negative |-> negative, bits |-> kept, ulp |-> ulp + cut]
             ELSE IF next.carry = 0
             THEN [negative |-> negative, bits |-> next.bits, ulp |-> ulp + cut]
             ELSE [negative |-> negative,
                   bits |-> <<1>> \o SubSeq(next.bits, 1, Precision - 1),
                   ulp |-> ulp + cut + 1]

\* 2^k modulo d, for k up to 2 * 26 + 1, in 32-bit arithmetic.
Pow2Mod(k, d) ==
    IF k <= 26 THEN Pow2(k) % d
    ELSE ((Pow2(26) % d) * (Pow2(k - 26) % d)) % d

\* The double n / d for integers n and 0 < d, both below 2^15 in magnitude
\* (one correctly rounded division).  With 2^e <= |n| / d < 2^(e+1) and
\* a / b = (|n| / d) / 2^e, bit i of the quotient is bit 0 of
\* floor(a * 2^(i-1) / b).
divide(n, d) ==
    IF n = 0 THEN DoubleZero
    ELSE LET magnitude == IF n < 0 THEN -n ELSE n
             e == CHOOSE k \in -15..15 :
                      /\ IF k >= 0 THEN Pow2(k) * d <= magnitude
                                   ELSE d <= magnitude * Pow2(-k)
                      /\ IF k + 1 >= 0 THEN magnitude < Pow2(k + 1) * d
                                       ELSE magnitude * Pow2(-(k + 1)) < d
             a == IF e < 0 THEN magnitude * Pow2(-e) ELSE magnitude
             b == IF e > 0 THEN d * Pow2(e) ELSE d
             remainder(i) == ((a % b) * Pow2Mod(i - 1, b)) % b
             bits == [i \in 1..(Precision + 1) |->
                         IF i = 1 THEN 1 ELSE (2 * remainder(i - 1)) \div b]
         IN  roundToPrecision(n < 0, bits, e - Precision,
                              remainder(Precision + 1) # 0)

\* The width of the limbs the product is computed in.
LimbBits == 14

\* The double x * w for a double x and an integer 0 < w < 2^16 (one
\* correctly rounded multiplication; an integer below 2^53 is a double).
\* The 53 bits of x are four limbs of LimbBits bits, least significant
\* first; each is multiplied by w with the carry of the limb below.
multiply(x, w) ==
    IF x.bits = <<>> THEN DoubleZero
    ELSE LET padded == [i \in 1..(4 * LimbBits - Precision) |-> 0] \o x.bits
             limb(k) == bitsToInt(SubSeq(padded, (3 - k) * LimbBits + 1,
                                         (4 - k) * LimbBits), 0)
             t0 == limb(0) * w
             t1 == limb(1) * w + t0 \div Pow2(LimbBits)
             t2 == limb(2) * w + t1 \div Pow2(LimbBits)
             t3 == limb(3) * w + t2 \div Pow2(LimbBits)
             out == <<t0 % Pow2(LimbBits), t1 % Pow2(LimbBits),
                      t2 % Pow2(LimbBits), t3>>
             bit(p) == (out[IF p \div LimbBits >= 3 THEN 4 ELSE p \div LimbBits + 1]
                           \div Pow2(IF p \div LimbBits >= 3 THEN p - 3 * LimbBits
                                     ELSE p % LimbBits)) % 2
             ones == {p \in 0..(3 * LimbBits + 30) : bit(p) = 1}
             top == CHOOSE p \in ones : \A q \in ones : q <= p
         IN  roundToPrecision(x.negative,
                              [i \in 1..(top + 1) |-> bit(top + 1 - i)],
                              x.ulp, FALSE)

\* Math.round of a double below 2^31 in magnitude: the nearest integer, a
\* half goes towards +Infinity.
roundDouble(x) ==
    IF x.bits = <<>> THEN 0
    ELSE LET whole == Precision + x.ulp     \* number of bits before the point
             integer == IF whole <= 0 THEN 0 ELSE bitsToInt(SubSeq(x.bits, 1, whole), 0)
             half == IF whole < 0 THEN 0 ELSE x.bits[whole + 1]
             below == \E i \in (whole + 2)..Precision : i >= 1 /\ x.bits[i] = 1
         IN  IF ~x.negative THEN integer + half
             ELSE IF half = 1 /\ below THEN -(integer + 1)
             ELSE -integer

\* Math.round((n / 1000) * size), as the code computes it.
toPixels(n, size) == roundDouble(multiply(divide(n, 1000), size))

\* Math.round of the exact quotient n * size / 1000, a half going up:
\* toPixels without the rounding errors of the division and the product.
toPixelsExact(n, size) == (2 * n * size + 1000) \div 2000

\* String.prototype.includes
includes(s, part) ==
    \E i \in 1..(Len(s) - Len(part) + 1) : SubSeq(s, i, i + Len(part) - 1) = part

\* findMatchingObject with a single pass: the first description that
\* matches the label in any of the three ways.
findMatchingObjectSinglePass(geminiLabel, descriptions) ==
    LET label == toLowerCase(geminiLabel)
        name(i) == toLowerCase(descriptions[i].name)
        any == {i \in DOMAIN descriptions :
                   \/ name(i) = label
                   \/ includes(label, name(i))
                   \/ includes(name(i), label)}
    IN  IF any # {}
        THEN descriptions[CHOOSE i \in any : \A j \in any : i <= j].name
        ELSE geminiLabel

\* findMatchingObject: the name of the first description that equals the
\* label, else of the first one that contains it or is contained in it
\* (all in lower case), else the label itself.
findMatchingObject(geminiLabel, descriptions) ==
    LET label == toLowerCase(geminiLabel)
        name(i) == toLowerCase(descriptions[i].name)
        exact == {i \in DOMAIN descriptions : name(i) = label}
        partial == {i \in DOMAIN descriptions :
                       includes(label, name(i)) \/ includes(name(i), label)}
    IN  IF exact # {}
        THEN descriptions[CHOOSE i \in exact : \A j \in exact : i <= j].name
        ELSE IF partial # {}
        THEN descriptions[CHOOSE i \in partial : \A j \in partial : i <= j].name
        ELSE geminiLabel

\* validateBounds with the check of the size before the check of the
\* extent, the order of validateCropRegions.
validateBoundsSizeFirst(x, y, w, h, size) ==
    IF x < 0 \/ y < 0 THEN "negative position"
    ELSE IF w <= 0 \/ h <= 0 THEN "non-positive size"
    ELSE IF x + w > size.width \/ y + h > size.height THEN "exceeds image bounds"
    ELSE "none"

\* validateBounds without the check of the size.
validateBoundsNoSizeCheck(x, y, w, h, size) ==
    IF x < 0 \/ y < 0 THEN "negative position"
    ELSE IF x + w > size.width \/ y + h > size.height THEN "exceeds image bounds"
    ELSE "none"

\* validateBounds: the check that throws, in the order the code makes
\* them; "none" when none does.
validateBounds(x, y, w, h, size) ==
    IF x < 0 \/ y < 0 THEN "negative position"
    ELSE IF x + w > size.width \/ y + h > size.height THEN "exceeds image bounds"
    ELSE IF w <= 0 \/ h <= 0 THEN "non-positive size"
    ELSE "none"

\* The rectangle the callback of transform computes for one box, before it
\* is validated.  box_2d is [y_min, x_min, y_max, x_max].
rectangleOf(geminiBox, descriptions, size) ==
    LET yMin == geminiBox.box_2d[1]
        xMin == geminiBox.box_2d[2]
        yMax == geminiBox.box_2d[3]
        xMax == geminiBox.box_2d[4]
    IN  Region(findMatchingObject(geminiBox.label, descriptions),
               toPixels(xMin, size.width), toPixels(yMin, size.height),
               toPixels(xMax - xMin, size.width), toPixels(yMax - yMin, size.height))

\* this.validateBounds(x, y, w, h, imageSize) on the fields of a rectangle.
boundsOf(r, size) ==
    validateBounds(r.position.x, r.position.y, r.size.w, r.size.h, size)

\* transform leaving out the boxes that fail validateBounds instead of
\* throwing.
transformSkippingFailures(boxes, descriptions, size) ==
    LET rectangles == [i \in 1..Len(boxes) |-> rectangleOf(boxes[i], descriptions, size)]
    IN  Return(SelectSeq(rectangles, LAMBDA r : boundsOf(r, size) = "none"))

\* geminiBoundingBoxes.map(...): the callback runs on the boxes in order
\* and the first box that fails validateBounds ends the call with its
\* BadRequestException.
transform(boxes, descriptions, size) ==
    LET rectangles == [i \in 1..Len(boxes) |-> rectangleOf(boxes[i], descriptions, size)]
        failing == {i \in 1..Len(boxes) : boundsOf(rectangles[i], size) # "none"}
        first == CHOOSE i \in failing : \A j \in failing : i <= j
    IN  IF failing = {} THEN Return(rectangles)
        ELSE Raise(boundsOf(rectangles[first], size))

(***************************************************************************)
(* BoxSpec: one call of transform, or of validateBounds on its own.        *)
(***************************************************************************)
MaxBoxes == 2
MaxSide == 2

\* Normalized coordinates: the ends of the frame, values outside it, and
\* values whose product with a small size falls next to a half.
CoordVals == {-100, 0, 580, 1000, 1100}

SizeVals ==
    { [width |-> 25, height |-> 50], [width |-> 1000, height |-> 1000],
      [width |-> 2047, height |-> 1535] }

GeminiBox(label, yMin, xMin, yMax, xMax) ==
    [label |-> label, box_2d |-> <<yMin, xMin, yMax, xMax>>]

ObjectDescription(name) == [name |-> name, description |-> <<>>]

LabelVals == {<<"c", "a", "t">>, <<"B", "l", "a", "c", "k", " ", "C", "a", "t">>, <<"d", "o", "g">>}

DescriptionLists ==
    { <<>>,
      <<ObjectDescription(<<"a", "t">>), ObjectDescription(<<"b", "l", "a", "c", "k", " ", "c", "a", "t">>)>>,
      <<ObjectDescription(<<"h", "o", "t", "d", "o", "g">>), ObjectDescription(<<"D", "O", "G">>)>> }

\* Every box over CoordVals, alone.
SweepBoxes ==
    { GeminiBox(<<"c", "a", "t">>, c[1], c[2], c[3], c[4]) :
        c \in CoordVals \X CoordVals \X CoordVals \X CoordVals }

\* The boxes of the tests of the service, and one with a zero width that
\* also leaves the image.
ListBoxes ==
    { GeminiBox(<<"c", "a", "t">>, 100, 200, 600, 700),
      GeminiBox(<<"B", "l", "a", "c", "k", " ", "C", "a", "t">>, 100, 100, 500, 500),
      GeminiBox(<<"d", "o", "g">>, 600, 600, 1000, 1000),
      GeminiBox(<<"c", "a", "t">>, 900, 900, 1100, 1100),
      GeminiBox(<<"d", "o", "g">>, -100, -100, 100, 100),
      GeminiBox(<<"c", "a", "t">>, 100, 100, 100, 100),
      GeminiBox(<<"d", "o", "g">>, 1000, 0, 1100, 0) }

BoxLists ==
    UNION {[1..n -> ListBoxes] : n \in 0..MaxBoxes}

\* The integers validateBounds is called with on its own.
SideVals == (-1)..(MaxSide + 1)

IdleBoxInit ==
    /\ request = NoRequest
    /\ response = None
    /\ NoProviderCall
    /\ env = NoEnv
    /\ result = None
    /\ error = NoException
    /\ colorString = <<>>
    /\ imageBuffer = NoDimsImage
    /\ regions = <<>>
    /\ includeBackground = FALSE
    /\ options = None
    /\ dims = [width |-> 0, height |-> 0]
    /\ tasks = <<>>
    /\ completionOrder = <<>>
    /\ croppedImages = None
    /\ data = <<>>
    /\ writes = {}

BoxInit ==
    /\ IdleBoxInit
    /\ \/ /\ pc = "transform"
          /\ \/ /\ geminiBoundingBoxes \in {<<b>> : b \in SweepBoxes}
                /\ objectDescriptions = <<>>
             \/ /\ geminiBoundingBoxes \in BoxLists
                /\ objectDescriptions \in DescriptionLists
          /\ imageSize \in SizeVals
          /\ rectangle = [x |-> 0, y |-> 0, w |-> 0, h |-> 0]
       \/ /\ pc = "validateBounds"
          /\ geminiBoundingBoxes = <<>>
          /\ objectDescriptions = <<>>
          /\ imageSize \in [width : 1..MaxSide, height : 1..MaxSide]
          /\ rectangle \in [x : SideVals, y : SideVals, w : SideVals, h : SideVals]

\* transform(geminiBoundingBoxes, objectDescriptions, imageSize) returns
\* the rectangles or throws what validateBounds threw.
TransformCall ==
    /\ pc = "transform"
    /\ LET outcome == transform(geminiBoundingBoxes, objectDescriptions, imageSize)
       IN  IF outcome.threw
           THEN /\ error' = BadRequest(outcome.message)
                /\ pc' = "transformFailed"
                /\ result' = result
           ELSE /\ result' = Some(outcome.value[1])
                /\ pc' = "transformDone"
                /\ error' = error
    /\ UNCHANGED <<otherArgs, imageBuffer, regions, includeBackground, options,
                   dims, tasks, completionOrder, croppedImages, data, writes>>

\* validateBounds(x, y, w, h, imageSize) returns or throws.
ValidateBoundsCall ==
    /\ pc = "validateBounds"
    /\ LET thrown == validateBounds(rectangle.x, rectangle.y, rectangle.w,
                                    rectangle.h, imageSize)
       IN  IF thrown # "none"
           THEN /\ error' = BadRequest(thrown)
                /\ pc' = "validateBoundsFailed"
           ELSE /\ pc' = "validateBoundsDone"
                /\ error' = error
    /\ UNCHANGED <<result, otherArgs, imageBuffer, regions, includeBackground,
                   options, dims, tasks, completionOrder, croppedImages, data,
                   writes>>

BoxNext == TransformCall \/ ValidateBoundsCall

BoxSpec == BoxInit /\ [][BoxNext]_vars

(***************************************************************************)
(* Properties of BoundingBoxTransformService                               *)
(***************************************************************************)
TransformReturned == pc = "transformDone"

TransformEnded == pc \in {"transformDone", "transformFailed"}

\* C17: every rectangle transform returns is the exact quotient rounded,
\* a half going up: x = round(x_min * W / 1000), y = round(y_min * H / 1000),
\* w = round((x_max - x_min) * W / 1000), h = round((y_max - y_min) * H / 1000);
\* and box [100,200,600,700] on 2047x1535 gives x = 409, y = 154, w = 1024,
\* h = 768.
C17_ExactlyRoundedRectangles ==
    TransformReturned =>
        /\ \A i \in DOMAIN geminiBoundingBoxes :
              LET box == geminiBoundingBoxes[i].box_2d
                  r == result[1][i]
              IN  /\ r.position.x = toPixelsExact(box[2], imageSize.width)
                  /\ r.position.y = toPixelsExact(box[1], imageSize.height)
                  /\ r.size.w = toPixelsExact(box[4] - box[2], imageSize.width)
                  /\ r.size.h = toPixelsExact(box[3] - box[1], imageSize.height)
        /\ \A i \in DOMAIN geminiBoundingBoxes :
              (/\ geminiBoundingBoxes[i].box_2d = <<100, 200, 600, 700>>
               /\ imageSize = [width |-> 2047, height |-> 1535])
              => /\ result[1][i].position = [x |-> 409, y |-> 154]
                 /\ result[1][i].size = [w |-> 1024, h |-> 768]

\* The six conditions of a rectangle inside an image of the given size.
InsideImage(r, size) ==
    /\ r.position.x >= 0
    /\ r.position.y >= 0
    /\ r.size.w > 0
    /\ r.size.h > 0
    /\ r.position.x + r.size.w <= size.width
    /\ r.position.y + r.size.h <= size.height

\* C18: transform never clamps.  Every rectangle it returns has x >= 0,
\* y >= 0, w > 0, h > 0, x + w <= W and y + h <= H; when the rounded
\* rectangle of any box breaks one of these the call fails; and what it
\* returns passes the validation of cropRegions on the same image.
C18_ReturnedRectanglesInsideImage ==
    TransformEnded =>
        LET rounded == [i \in DOMAIN geminiBoundingBoxes |->
                           rectangleOf(geminiBoundingBoxes[i], objectDescriptions,
                                       imageSize)]
        IN  /\ TransformReturned =>
                  /\ result[1] = rounded
                  /\ \A i \in DOMAIN result[1] : InsideImage(result[1][i], imageSize)
                  /\ validateCropRegions(result[1], imageSize.width,
                                         imageSize.height) = NoError
            /\ (\E i \in DOMAIN rounded : ~InsideImage(rounded[i], imageSize))
                  => pc = "transformFailed"

\* transform returned a rectangle that ends on the right and bottom edges
\* of the image, next to one well inside it.
C18_Witness ==
    /\ TransformReturned
    /\ Len(result[1]) = 2
    /\ \E i \in DOMAIN result[1] :
          /\ result[1][i].position.x + result[1][i].size.w = imageSize.width
          /\ result[1][i].position.y + result[1][i].size.h = imageSize.height
          /\ result[1][i].position.x > 0

ValidateBoundsEnded == pc \in {"validateBoundsDone", "validateBoundsFailed"}

\* What validateCropRegions does with the single region (x, y, w, h).
cropVerdict ==
    validateCropRegions(<<Region(NoObject, rectangle.x, rectangle.y,
                                 rectangle.w, rectangle.h)>>,
                        imageSize.width, imageSize.height)

\* The rule of validateCropRegions a rule of validateBounds stands for:
\* validateBounds has one rule for both overflows.
sameRule(boundsRule, cropRule) ==
    \/ boundsRule = "negative position" /\ cropRule = "negative position"
    \/ boundsRule = "non-positive size" /\ cropRule = "non-positive size"
    \/ /\ boundsRule = "exceeds image bounds"
       /\ cropRule \in {"beyond image width", "beyond image height"}

\* C19: validateBounds rejects (x, y, w, h) exactly when validateCropRegions
\* rejects the single region with that position and size, and when both
\* reject they report the same first violated rule, in the order negative
\* position, non-positive size, width overflow, height overflow.
C19_SameRulesAsCropRegions ==
    ValidateBoundsEnded =>
        /\ pc = "validateBoundsFailed" <=> cropVerdict # NoError
        /\ pc = "validateBoundsFailed" => sameRule(error.kind, cropVerdict.rule)

\* The rectangle has a non-positive size and also leaves the image, at a
\* position that is not negative.
EmptyAndOutside ==
    /\ rectangle.x >= 0 /\ rectangle.y >= 0
    /\ rectangle.w <= 0 \/ rectangle.h <= 0
    /\ \/ rectangle.x + rectangle.w > imageSize.width
       \/ rectangle.y + rectangle.h > imageSize.height

\* C19 (amended): validateBounds rejects (x, y, w, h) exactly when
\* validateCropRegions rejects the single region, and both report the same
\* rule (validateBounds having one rule for the two overflows) unless the
\* rectangle has a non-positive size and also leaves the image: there
\* validateBounds reports the overflow, which it checks before the size, and
\* validateCropRegions reports the size.
C19_SameRejectsOverflowBeforeSize ==
    ValidateBoundsEnded =>
        /\ pc = "validateBoundsFailed" <=> cropVerdict # NoError
        /\ pc = "validateBoundsFailed" =>
              IF EmptyAndOutside
              THEN /\ error.kind = "exceeds image bounds"
                   /\ cropVerdict.rule = "non-positive size"
              ELSE sameRule(error.kind, cropVerdict.rule)

\* validateBounds rejected a rectangle of width 0 that lies right of the
\* image, where the two validations name different rules.
C19_Witness ==
    /\ pc = "validateBoundsFailed"
    /\ rectangle.w = 0 /\ rectangle.h > 0
    /\ rectangle.x > imageSize.width
    /\ error.kind = "exceeds image bounds"
    /\ cropVerdict.rule = "non-positive size"

\* C20: when transform rejects a box, for an extent beyond the image, a
\* negative position or a size that is zero or negative, what it throws is an
\* InternalServerErrorException.
C20_RejectionIsInternalServerError ==
    pc = "transformFailed" => error.exception = "InternalServerErrorException"

\* Equality and containment of a label and a name, case-insensitively.
EqualsIgnoringCase(label, name) == toLowerCase(label) = toLowerCase(name)

ContainsIgnoringCase(label, name) ==
    \/ includes(toLowerCase(label), toLowerCase(name))
    \/ includes(toLowerCase(name), toLowerCase(label))

\* The object the three tiers give to a label: the first name equal to it,
\* else the first name containing it or contained in it, else the label.
ThreeTiers(label, object) ==
    LET names == [i \in DOMAIN objectDescriptions |-> objectDescriptions[i].name]
        equal == {i \in DOMAIN names : EqualsIgnoringCase(label, names[i])}
        close == {i \in DOMAIN names : ContainsIgnoringCase(label, names[i])}
    IN  IF equal # {}
        THEN \E i \in equal : object = names[i] /\ \A j \in equal : i <= j
        ELSE IF close # {}
        THEN \E i \in close : object = names[i] /\ \A j \in close : i <= j
        ELSE object = label

\* C21: findMatchingObject resolves a label by three tiers, and one of them
\* always applies: the first name equal to the label case-insensitively, even when an
\* earlier name only contains it or is contained in it; else the first name
\* in request order that contains the label or is contained in it; else the
\* label itself, unchanged.
C21_ThreeTierLabelMatch ==
    TransformReturned =>
        \A i \in DOMAIN geminiBoundingBoxes :
            ThreeTiers(geminiBoundingBoxes[i].label, result[1][i].object)

\* transform returned a rectangle named after the second requested object,
\* which equals the label, although the first one is contained in the label.
C21_Witness ==
    /\ TransformReturned
    /\ Len(objectDescriptions) = 2
    /\ \E i \in DOMAIN result[1] :
          /\ EqualsIgnoringCase(geminiBoundingBoxes[i].label, objectDescriptions[2].name)
          /\ ContainsIgnoringCase(geminiBoundingBoxes[i].label, objectDescriptions[1].name)
          /\ ~EqualsIgnoringCase(geminiBoundingBoxes[i].label, objectDescriptions[1].name)
          /\ result[1][i].object = objectDescriptions[2].name
          /\ result[1][i].object # geminiBoundingBoxes[i].label

\* What transform does with box i of the call when it is the only box.
alone(i) == transform(<<geminiBoundingBoxes[i]>>, objectDescriptions, imageSize)

\* C22: transform is index-aligned and all-or-nothing.  When it returns,
\* the output has one rectangle per box, rectangle i being the one box i
\* alone gives, its object the name findMatchingObject gives the label of
\* box i; when any box fails the bounds check the call fails and no
\* rectangle is returned.
C22_IndexAlignedAllOrNothing ==
    TransformEnded =>
        /\ TransformReturned =>
              /\ Len(result[1]) = Len(geminiBoundingBoxes)
              /\ \A i \in DOMAIN geminiBoundingBoxes :
                    /\ ~alone(i).threw
                    /\ result[1][i] = alone(i).value[1][1]
                    /\ result[1][i].object =
                          findMatchingObject(geminiBoundingBoxes[i].label,
                                             objectDescriptions)
        /\ (\E i \in DOMAIN geminiBoundingBoxes : alone(i).threw)
              => pc = "transformFailed"
        /\ pc = "transformFailed" => result = None

\* transform failed on its second box, the first one being valid, and
\* returned nothing.
C22_Witness ==
    /\ pc = "transformFailed"
    /\ Len(geminiBoundingBoxes) = 2
    /\ ~alone(1).threw
    /\ alone(2).threw
    /\ result = None

(***************************************************************************)
(* ImageController.cropRegions (POST crop-regions)                         *)
(***************************************************************************)
MAX_CROP_REGIONS == 20
MIN_CROP_REGIONS == 1
MAX_IMAGE_DIMENSION == 65535

\* The status Nest's exception filter answers an HttpException with.
statusOf(exception) ==
    CASE exception = "BadRequestException" -> 400
      [] exception = "RequestTimeoutException" -> 408
      [] OTHER -> 500

Failure(exception, message) ==
    [status |-> statusOf(exception), exception |-> exception, message |-> message]

\* res.json(apiResult), or the archive piped into res.
Success(body) == [status |-> 200, exception |-> "none", message |-> body]

\* The text of the regions field: what JSON.parse does with it.  "malformed"
\* is a text JSON.parse throws on (or a missing field), "null" the text
\* null, "array" the text of an array of regions.
RegionsJson(syntax, value) == [syntax |-> syntax, value |-> value]

\* n times the same 1x1 window at the origin.
Repeated(n) == [i \in 1..n |-> Region(NoObject, 0, 0, 1, 1)]

CropRegionLists ==
    RegionLists
        \cup {Repeated(MAX_CROP_REGIONS), Repeated(MAX_CROP_REGIONS + 1)}
        \cup {<<Region(NoObject, 0, 0, MAX_IMAGE_DIMENSION + 1, 1)>>}

CropFiles ==
    {PatternImage(w, h, 3) : w \in 1..MaxWidth, h \in Heights} \cup {NoDimsImage}

CropRequests ==
    [endpoint : {"crop-regions"},
     file : CropFiles,
     regionsJson : {RegionsJson("malformed", <<>>), RegionsJson("null", <<>>)}
                       \cup {RegionsJson("array", rs) : rs \in CropRegionLists},
     includeBackgroundStr : {"true", "1", "false"},
     format : {"json", "zip"}]

CropRequestInit ==
    /\ request \in CropRequests
    /\ response = None
    /\ NoProviderCall
    /\ env = NoEnv
    /\ pc = "cropRegionsRequest"
    /\ imageBuffer = NoDimsImage
    /\ regions = <<>>
    /\ includeBackground = FALSE
    /\ options = None
    /\ dims = [width |-> 0, height |-> 0]
    /\ tasks = <<>>
    /\ completionOrder = <<>>
    /\ croppedImages = None
    /\ data = <<>>
    /\ writes = {}
    /\ result = None
    /\ error = NoException
    /\ colorString = <<>>
    /\ geminiBoundingBoxes = <<>>
    /\ objectDescriptions = <<>>
    /\ imageSize = [width |-> 0, height |-> 0]
    /\ rectangle = [x |-> 0, y |-> 0, w |-> 0, h |-> 0]

\* cropDto.includeBackground
includeBackgroundOf(includeBackgroundStr) ==
    includeBackgroundStr = "true" \/ includeBackgroundStr = "1"

\* What a call of ImageProcessingService.cropRegions settles with when no
\* codec call rejects: the error of its catch block, or the CropResult.
cropRegionsOutcome(img, rs, background) ==
    LET v == validateCropRegions(rs, img.width, img.height)
        crops == [i \in 1..Len(rs) |-> extractCropRegion(img, rs[i], i - 1)[1]]
        backgroundImage ==
            IF background
            THEN Some(buildPngFromRaw(
                     generateBackgroundData(extractRawPixels(img), rs,
                                            img.width, img.height),
                     img.width, img.height))
            ELSE None
    IN  IF img.width = 0 \/ img.height = 0
        THEN [threw |-> TRUE, error |-> cropCatch(CodecError("dimensions")),
              crops |-> <<>>, value |-> <<>>]
        ELSE IF v # NoError
        THEN [threw |-> TRUE, error |-> cropCatch(v), crops |-> <<>>, value |-> <<>>]
        ELSE [threw |-> FALSE, error |-> NoException, crops |-> crops,
              value |-> <<cropResult(crops, backgroundImage, rs,
                                     img.width, img.height)>>]

\* JSON.parse(regionsJson) threw: the catch block of the controller turns
\* it into a BadRequestException and the service is not called.
CropRegionsJsonRejected ==
    /\ pc = "cropRegionsRequest"
    /\ request.regionsJson.syntax = "malformed"
    /\ pc' = "responded"
    /\ response' = Some(Failure("BadRequestException", "Invalid regions JSON"))
    /\ UNCHANGED <<providerState, request, env, imageBuffer, regions, includeBackground, options,
                   dims, tasks, completionOrder, croppedImages, data, writes,
                   result, error, colorString, geminiBoundingBoxes,
                   objectDescriptions, imageSize, rectangle>>

\* The request was handled with all codec calls of the service resolving:
\* the parsed value goes to cropRegions as it is; what the service throws
\* leaves the controller unchanged, what it returns is sent.
CropRegionsHandled ==
    /\ pc = "cropRegionsRequest"
    /\ request.regionsJson.syntax # "malformed"
    /\ imageBuffer' = request.file
    /\ regions' = request.regionsJson.value
    /\ includeBackground' = includeBackgroundOf(request.includeBackgroundStr)
    /\ pc' = "responded"
    /\ IF request.regionsJson.syntax = "null"
       THEN \* regions.length throws a TypeError inside the try block
            /\ error' = cropCatch(CodecError("TypeError"))
            /\ response' = Some(Failure("InternalServerErrorException",
                                        "Failed to crop image"))
            /\ UNCHANGED <<dims, croppedImages, result>>
       ELSE LET outcome == cropRegionsOutcome(imageBuffer', regions', includeBackground')
            IN  /\ dims' = [width |-> request.file.width, height |-> request.file.height]
                /\ error' = outcome.error
                /\ IF outcome.threw
                   THEN /\ response' = Some(Failure(outcome.error.exception,
                                                    "Failed to crop image"))
                        /\ UNCHANGED <<croppedImages, result>>
                   ELSE /\ croppedImages' = Some(outcome.crops)
                        /\ result' = outcome.value
                        /\ response' = Some(Success(request.format))
    /\ UNCHANGED <<providerState, request, env, options, tasks, completionOrder, data, writes,
                   colorString, geminiBoundingBoxes, objectDescriptions,
                   imageSize, rectangle>>

\* One of the codec calls of the service rejected (the file is no image,
\* the encoder failed): the catch block of the service runs.
CropRegionsCodecFailed ==
    /\ pc = "cropRegionsRequest"
    /\ request.regionsJson.syntax = "array"
    /\ imageBuffer' = request.file
    /\ regions' = request.regionsJson.value
    /\ includeBackground' = includeBackgroundOf(request.includeBackgroundStr)
    /\ pc' = "responded"
    /\ error' = cropCatch(CodecError("codec"))
    /\ response' = Some(Failure("InternalServerErrorException", "Failed to crop image"))
    /\ UNCHANGED <<providerState, request, env, options, dims, tasks, completionOrder,
                   croppedImages, data, writes, result, colorString,
                   geminiBoundingBoxes, objectDescriptions, imageSize, rectangle>>

CropRequestNext ==
    CropRegionsJsonRejected \/ CropRegionsHandled \/ CropRegionsCodecFailed

CropRequestSpec == CropRequestInit /\ [][CropRequestNext]_vars

(***************************************************************************)
(* Properties of ImageController.cropRegions                               *)
(***************************************************************************)
CropResponded == pc = "responded" /\ request.endpoint = "crop-regions"

\* C23: a crop-regions request whose regions violate the image bounds, or
\* have a negative position or a non-positive size, is answered with
\* 400 Bad Request, not with a 500.
C23_OutOfBoundsRegionsAnswered400 ==
    (CropResponded /\ error.kind = "validation") => response[1].status = 400

\* The limits of CropImageDto on a list of regions: MIN_CROP_REGIONS to
\* MAX_CROP_REGIONS regions, positions in 0..65535 and sizes in 1..65535.
WithinDtoLimits(rs) ==
    /\ Len(rs) >= MIN_CROP_REGIONS
    /\ Len(rs) <= MAX_CROP_REGIONS
    /\ \A i \in DOMAIN rs :
          /\ rs[i].position.x \in 0..MAX_IMAGE_DIMENSION
          /\ rs[i].position.y \in 0..MAX_IMAGE_DIMENSION
          /\ rs[i].size.w \in 1..MAX_IMAGE_DIMENSION
          /\ rs[i].size.h \in 1..MAX_IMAGE_DIMENSION

\* C24: the crop-regions endpoint accepts only lists of 1 to 20 regions
\* with integer coordinates, positions in 0..65535 and sizes in 1..65535: a
\* request outside these limits is rejected before any cropping is done.
C24_OnlyListsWithinDtoLimitsAccepted ==
    (/\ CropResponded
     /\ request.regionsJson.syntax = "array"
     /\ ~WithinDtoLimits(request.regionsJson.value))
    => /\ response[1].status # 200
       /\ croppedImages = None
       /\ result = None

(***************************************************************************)
(* POST remove-background (ImageController.removeBackground) and the       *)
(* tolerance getter of AppConfigService                                    *)
(***************************************************************************)
\* parseInt(string, 10): leading white space is skipped, then an optional
\* sign, then the longest run of decimal digits is read and whatever
\* follows it is ignored; NaN when that run is empty.
parseInt10(string) ==
    LET s1 == trimStart(string)
        negative == s1 # <<>> /\ Head(s1) = "-"
        s2 == IF s1 # <<>> /\ Head(s1) \in {"+", "-"} THEN Tail(s1) ELSE s1
        run == decPrefix(s2, 0, 0)
    IN  IF run[1] = 0 THEN NaN
        ELSE IF negative THEN <<-run[2]>> ELSE <<run[2]>>

\* this.configService.get('TOLERANCE', '0')
toleranceValue(environment) ==
    IF environment.TOLERANCE = None THEN <<"0">> ELSE environment.TOLERANCE[1]

\* get tolerance(): the parsed value, or an Error when it is NaN, negative
\* or above 255.
tolerance(environment) ==
    LET parsed == parseInt10(toleranceValue(environment))
    IN  IF parsed = NaN \/ parsed[1] < 0 \/ parsed[1] > 255
        THEN Raise("Invalid TOLERANCE value")
        ELSE Return(parsed[1])

\* The values of the TOLERANCE environment variable: unset, or a text.
ToleranceEnvs ==
    {[TOLERANCE |-> None, GEMINI_API_TIMEOUT |-> None]} \cup
    {[TOLERANCE |-> Some(t), GEMINI_API_TIMEOUT |-> None] :
        t \in {<<"0">>, <<"2", "5">>, <<"2", "5", "5">>, <<"2", "5", "6">>, <<"3", "0", "0">>, <<"-", "1", "0">>, <<"a", "b", "c">>,
               <<>>, <<" ", "7">>, <<"1", "2", "a", "b", "c">>, <<"1", ".", "5">>, <<"-", "0", ".", "5">>, <<"1", "e", "3">>}}

\* dto.backgroundColor: omitted, or a text.
BackgroundColors ==
    {None} \cup
    {Some(c) : c \in {<<>>, <<"#", "F", "F", "F", "F", "F", "F">>, <<"#", "f", "f", "f">>, <<" ", "W", "h", "i", "t", "e", " ">>, <<"r", "e", "d">>,
                      <<"r", "g", "b", "(", "2", "5", "5", ",", " ", "2", "5", "5", ",", " ", "2", "5", "0", ")">>, <<"i", "n", "v", "a", "l", "i", "d">>, <<"#", "G", "G", "G">>,
                      <<"#", "F", "F">>, <<"r", "g", "b", "(", "3", "0", "0", ",", "0", ",", "0", ")">>}}

\* The uploaded files: one or two pixels, with and without an alpha channel.
RemoveFiles ==
    {ProbeImage(1, 1, 3, 1, <<255, 255, 255>>),
     ProbeImage(1, 1, 4, 1, <<255, 0, 0, 200>>),
     ProbeImage(2, 1, 4, 2, <<255, 255, 252, 255>>)}

RemoveRequests ==
    [endpoint : {"remove-background"}, file : RemoveFiles,
     backgroundColor : BackgroundColors]

\* A request for POST remove-background has arrived, or the tolerance
\* getter is about to be read on its own.
RemoveRequestInit ==
    /\ \/ pc = "removeBackgroundRequest" /\ request \in RemoveRequests
       \/ pc = "tolerance" /\ request = NoRequest
    /\ env \in ToleranceEnvs
    /\ response = None
    /\ NoProviderCall
    /\ imageBuffer = NoDimsImage
    /\ regions = <<>>
    /\ includeBackground = FALSE
    /\ options = None
    /\ dims = [width |-> 0, height |-> 0]
    /\ tasks = <<>>
    /\ completionOrder = <<>>
    /\ croppedImages = None
    /\ data = <<>>
    /\ writes = {}
    /\ result = None
    /\ error = NoException
    /\ colorString = <<>>
    /\ geminiBoundingBoxes = <<>>
    /\ objectDescriptions = <<>>
    /\ imageSize = [width |-> 0, height |-> 0]
    /\ rectangle = [x |-> 0, y |-> 0, w |-> 0, h |-> 0]

\* dto.backgroundColor || '#FFFFFF'
backgroundColorOrWhite(backgroundColor) ==
    IF backgroundColor = None \/ backgroundColor[1] = <<>>
    THEN <<"#", "F", "F", "F", "F", "F", "F">>
    ELSE backgroundColor[1]

\* A read of configService.tolerance on its own.
ToleranceRead ==
    /\ pc = "tolerance"
    /\ LET got == tolerance(env)
       IN  IF got.threw
           THEN /\ pc' = "toleranceFailed"
                /\ error' = [exception |-> "Error", kind |-> "config", index |-> -1,
                             rule |-> got.message]
                /\ UNCHANGED result
           ELSE /\ pc' = "toleranceDone"
                /\ result' = Some(got.value[1])
                /\ UNCHANGED error
    /\ UNCHANGED <<otherArgs, imageBuffer, regions, includeBackground, options, dims,
                   tasks, completionOrder, croppedImages, data, writes>>

\* The handler falling back to white when the colour does not parse.
RemoveBackgroundCalledLenient ==
    /\ pc = "removeBackgroundRequest"
    /\ colorString' = backgroundColorOrWhite(request.backgroundColor)
    /\ LET parsed == parseColor(backgroundColorOrWhite(request.backgroundColor))
           got == tolerance(env)
       IN  IF got.threw
           THEN /\ pc' = "responded"
                /\ response' = Some(Failure("Error", got.message))
                /\ error' = [exception |-> "Error", kind |-> "config", index |-> -1,
                             rule |-> got.message]
                /\ UNCHANGED <<imageBuffer, options>>
           ELSE /\ pc' = "rbRawPixels"
                /\ imageBuffer' = request.file
                /\ options' = Some([backgroundColor |->
                                        IF parsed.threw THEN RGB(255, 255, 255)
                                        ELSE parsed.value[1],
                                    tolerance |-> Some(got.value[1])])
                /\ UNCHANGED <<response, error>>
    /\ UNCHANGED <<providerState, request, env, regions, includeBackground, dims, tasks,
                   completionOrder, croppedImages, data, writes, result,
                   geminiBoundingBoxes, objectDescriptions, imageSize, rectangle>>

\* The handler up to its await: the colour is parsed (a failure is rethrown
\* as BadRequestException), the options are built, which reads the
\* tolerance getter (its Error is not caught), and
\* imageProcessor.removeBackground is called.
RemoveBackgroundCalled ==
    /\ pc = "removeBackgroundRequest"
    /\ colorString' = backgroundColorOrWhite(request.backgroundColor)
    /\ LET parsed == parseColor(backgroundColorOrWhite(request.backgroundColor))
           got == tolerance(env)
       IN  IF parsed.threw
           THEN /\ pc' = "responded"
                /\ response' = Some(Failure("BadRequestException", parsed.message))
                /\ error' = [exception |-> "BadRequestException", kind |-> "color",
                             index |-> -1, rule |-> parsed.message]
                /\ UNCHANGED <<imageBuffer, options>>
           ELSE IF got.threw
           THEN /\ pc' = "responded"
                /\ response' = Some(Failure("Error", got.message))
                /\ error' = [exception |-> "Error", kind |-> "config", index |-> -1,
                             rule |-> got.message]
                /\ UNCHANGED <<imageBuffer, options>>
           ELSE /\ pc' = "rbRawPixels"
                /\ imageBuffer' = request.file
                /\ options' = Some([backgroundColor |-> parsed.value[1],
                                    tolerance |-> Some(got.value[1])])
                /\ UNCHANGED <<response, error>>
    /\ UNCHANGED <<providerState, request, env, regions, includeBackground, dims, tasks,
                   completionOrder, croppedImages, data, writes, result,
                   geminiBoundingBoxes, objectDescriptions, imageSize, rectangle>>

\* removeBackground returned: res.send(outputBuffer).
RemoveBackgroundSent ==
    /\ pc = "done"
    /\ pc' = "responded"
    /\ response' = Some(Success(result[1]))
    /\ UNCHANGED <<providerState, request, env, imageBuffer, regions, includeBackground, options,
                   dims, tasks, completionOrder, croppedImages, data, writes, result,
                   error, colorString, geminiBoundingBoxes, objectDescriptions,
                   imageSize, rectangle>>

\* removeBackground threw: the handler does not catch it.
RemoveBackgroundFailed ==
    /\ pc = "failed"
    /\ pc' = "responded"
    /\ response' = Some(Failure(error.exception, "Failed to remove background"))
    /\ UNCHANGED <<providerState, request, env, imageBuffer, regions, includeBackground, options,
                   dims, tasks, completionOrder, croppedImages, data, writes, result,
                   error, colorString, geminiBoundingBoxes, objectDescriptions,
                   imageSize, rectangle>>

RemoveRequestNext ==
    \/ ToleranceRead
    \/ RemoveBackgroundCalled
    \/ RbRawPixelsResolved
    \/ RbEncodeResolved
    \/ RbRejected
    \/ RemoveBackgroundSent
    \/ RemoveBackgroundFailed

RemoveRequestSpec == RemoveRequestInit /\ [][RemoveRequestNext]_vars

(***************************************************************************)
(* Properties of the remove-background endpoint and of the tolerance       *)
(* getter                                                                  *)
(***************************************************************************)
\* What is left of s after its leading decimal digits.
afterDigits(s) == SubSeq(s, decPrefix(s, 0, 0)[1] + 1, Len(s))

\* The text, trimmed, is a decimal literal: an optional sign, digits and an
\* optional fraction, with at least one digit and nothing else.
IsNumericText(s) ==
    LET t == trim(s)
        u == IF t # <<>> /\ Head(t) \in {"+", "-"} THEN Tail(t) ELSE t
        rest == afterDigits(u)
        fraction == IF rest # <<>> /\ Head(rest) = "." THEN Tail(rest) ELSE rest
    IN  /\ Len(u) - Len(rest) + Len(fraction) - Len(afterDigits(fraction)) > 0
        /\ afterDigits(fraction) = <<>>

\* The text is a run of digits and nothing else: a whole number.
IsWholeNumberText(s) == trim(s) # <<>> /\ afterDigits(trim(s)) = <<>>

IsNegativeText(s) == IsNumericText(s) /\ Head(trim(s)) = "-"

\* C25: the tolerance handed to removeBackground is an integer in 0..255;
\* the getter returns the configured value when it is a number from 0 to 255
\* (0 when TOLERANCE is unset) and throws for a negative value, a value
\* above 255 and every text that is no number.
C25_GetterReturnsNumberOrThrows ==
    /\ (options # None /\ request # NoRequest) =>
           /\ options[1].tolerance # None
           /\ options[1].tolerance[1] \in 0..255
    /\ pc \in {"toleranceDone", "toleranceFailed"} =>
           IF env.TOLERANCE = None
           THEN pc = "toleranceDone" /\ result = Some(0)
           ELSE LET text == env.TOLERANCE[1]
                    whole == decPrefix(trim(text), 0, 0)[2]
                IN  /\ (IsWholeNumberText(text) /\ whole <= 255) =>
                           (pc = "toleranceDone" /\ result = Some(whole))
                    /\ (IsWholeNumberText(text) /\ whole > 255) =>
                           pc = "toleranceFailed"
                    /\ IsNegativeText(text) => pc = "toleranceFailed"
                    /\ ~IsNumericText(text) => pc = "toleranceFailed"

\* The colour text the handler parses does not parse.
ColorRejected ==
    /\ request.endpoint = "remove-background"
    /\ parseColor(backgroundColorOrWhite(request.backgroundColor)).threw

\* C26: in POST remove-background the colour is parsed before any image
\* work.  When backgroundColor does not parse, removeBackground is never
\* invoked (no state of the request is inside the service, no option, pixel
\* or result exists) and the request ends with 400 Bad Request; when
\* backgroundColor is omitted or empty, the target colour handed to the
\* service is {255, 255, 255}.
C26_ColorParsedBeforeImageWork ==
    request.endpoint = "remove-background" =>
        /\ ColorRejected =>
               /\ pc \in {"removeBackgroundRequest", "responded"}
               /\ options = None /\ imageBuffer = NoDimsImage
               /\ data = <<>> /\ writes = {} /\ result = None
               /\ pc = "responded" =>
                      /\ response[1].status = 400
                      /\ response[1].exception = "BadRequestException"
        /\ (request.backgroundColor \in {None, Some(<<>>)} /\ options # None) =>
               options[1].backgroundColor = RGB(255, 255, 255)

C26_Witness ==
    /\ ColorRejected
    /\ request.backgroundColor # None /\ request.backgroundColor[1] # <<>>
    /\ pc = "responded"
    /\ response[1].status = 400

(***************************************************************************)
(* ReplicateService.runSam2Segmentation and its retry loop runWithRetry    *)
(***************************************************************************)
maxRetries == 3
initialBackoff == 1000

\* The longest individual_masks array of the model.
MaxMasks == 1

\* A JavaScript value of the provider's output: its typeof and, for a
\* string, its text.
Undefined == [type |-> "undefined", text |-> <<>>]
StringValue(s) == [type |-> "string", text |-> s]
NumberValue == [type |-> "number", text |-> <<>>]

MaskValues == {StringValue(<<"h", "t", "t", "p", ":", "/", "/", "m">>), StringValue(<<"f", "t", "p", ":", "/", "/", "m">>), NumberValue}

CombinedMaskValues == {Undefined, StringValue(<<>>), StringValue(<<"h", "t", "t", "p", ":", "/", "/", "c">>)}

MaskLists == UNION {[1..n -> MaskValues] : n \in 0..MaxMasks}

\* What client.run resolves with: null, a text, or an object whose
\* individual_masks is an array (<<list>>) or not (<<>>).
Sam2Outputs ==
    {[type |-> "null", combined_mask |-> Undefined, individual_masks |-> None],
     [type |-> "string", combined_mask |-> Undefined, individual_masks |-> None]}
    \cup [type : {"object"}, combined_mask : CombinedMaskValues,
          individual_masks : {None} \cup {Some(l) : l \in MaskLists}]

\* The errors client.run rejects with.
ReplicateErrors == {"Request to Replicate failed: 429", "Prediction failed"}

\* Math.pow(2, attempt)
MathPow2(n) == 2 ^ n

\* The delay before the next attempt, the same after every failure.
backoffConstant(n) == initialBackoff

\* this.initialBackoff * Math.pow(2, attempt)
backoff(n) == initialBackoff * MathPow2(n)

\* The first index (0-based) of a mask that is no string starting with
\* http, or -1.
firstBadMask(individualMasks) ==
    LET bad == {i \in 1..Len(individualMasks) :
                    \/ individualMasks[i].type # "string"
                    \/ ~startsWith(individualMasks[i].text, <<"h", "t", "t", "p">>)}
    IN  IF bad = {} THEN -1 ELSE (CHOOSE i \in bad : \A j \in bad : i <= j) - 1

\* The validation of the output inside the try block of runWithRetry.
validateSam2Output(output) ==
    IF output.type # "object"
    THEN Raise("Invalid response from Replicate API: expected object")
    ELSE IF output.combined_mask.type # "string" \/ output.combined_mask.text = <<>>
    THEN Raise("Invalid response: missing or invalid combined_mask")
    ELSE IF output.individual_masks = None
    THEN Raise("Invalid response: individual_masks must be an array")
    ELSE IF firstBadMask(output.individual_masks[1]) # -1
    THEN Raise("Invalid mask URL at index "
               \o ToString(firstBadMask(output.individual_masks[1])))
    ELSE Return([combined_mask |-> output.combined_mask.text,
                 individual_masks |-> [i \in 1..Len(output.individual_masks[1]) |->
                                          output.individual_masks[1][i].text]])

\* runSam2Segmentation has been called: the first client.run is pending.
Sam2Init ==
    /\ pc = "sam2Run"
    /\ attempt = 0
    /\ lastError = None
    /\ sleeps = <<>>
    /\ calls = <<>>
    /\ timer = [state |-> "unset", ms |-> 0]
    /\ apiPromise = [state |-> "none"]
    /\ race = None
    /\ request = NoRequest
    /\ response = None
    /\ env = NoEnv
    /\ imageBuffer = NoDimsImage
    /\ regions = <<>>
    /\ includeBackground = FALSE
    /\ options = None
    /\ dims = [width |-> 0, height |-> 0]
    /\ tasks = <<>>
    /\ completionOrder = <<>>
    /\ croppedImages = None
    /\ data = <<>>
    /\ writes = {}
    /\ result = None
    /\ error = NoException
    /\ colorString = <<>>
    /\ geminiBoundingBoxes = <<>>
    /\ objectDescriptions = <<>>
    /\ imageSize = [width |-> 0, height |-> 0]
    /\ rectangle = [x |-> 0, y |-> 0, w |-> 0, h |-> 0]

Sam2Unchanged ==
    UNCHANGED <<imageBuffer, regions, includeBackground, options, dims, tasks,
                completionOrder, croppedImages, data, writes, colorString,
                geminiBoundingBoxes, objectDescriptions, imageSize, rectangle,
                request, response, env, timer, apiPromise, race>>

\* The catch block of the loop: the error is kept; before the last attempt
\* the loop sleeps, after it the loop ends, runWithRetry throws lastError
\* and the catch block of runSam2Segmentation wraps it.
Sam2Caught(message) ==
    /\ lastError' = Some(message)
    /\ IF attempt < maxRetries - 1
       THEN /\ sleeps' = Append(sleeps, backoff(attempt))
            /\ pc' = "sam2Sleep"
            /\ UNCHANGED <<attempt, error>>
       ELSE /\ attempt' = attempt + 1
            /\ pc' = "sam2Failed"
            /\ error' = [exception |-> "Error", kind |-> "replicate", index |-> -1,
                         rule |-> "Replicate API error: " \o message]
            /\ UNCHANGED sleeps
    /\ UNCHANGED result

\* await this.client.run(...) resolved: the output is validated and
\* returned, or the validation throws into the catch block.
Sam2RunResolved ==
    /\ pc = "sam2Run"
    /\ \E output \in Sam2Outputs :
          /\ calls' = Append(calls, [settled |-> "resolved", output |-> output,
                                     message |-> "none"])
          /\ LET validated == validateSam2Output(output)
             IN  IF validated.threw
                 THEN Sam2Caught(validated.message)
                 ELSE /\ result' = Some(validated.value[1])
                      /\ pc' = "sam2Done"
                      /\ UNCHANGED <<attempt, lastError, sleeps, error>>
    /\ Sam2Unchanged

\* await this.client.run(...) rejected.
Sam2RunRejected ==
    /\ pc = "sam2Run"
    /\ \E message \in ReplicateErrors :
          /\ calls' = Append(calls, [settled |-> "rejected",
                                     output |-> [type |-> "none"],
                                     message |-> message])
          /\ Sam2Caught(message)
    /\ Sam2Unchanged

\* await this.sleep(backoff) resolved: attempt++ and the next client.run.
Sam2SleepResolved ==
    /\ pc = "sam2Sleep"
    /\ attempt' = attempt + 1
    /\ pc' = "sam2Run"
    /\ UNCHANGED <<lastError, sleeps, calls, result, error>>
    /\ Sam2Unchanged

Sam2Next == Sam2RunResolved \/ Sam2RunRejected \/ Sam2SleepResolved

Sam2Spec == Sam2Init /\ [][Sam2Next]_vars

\* Every client.run settles and every setTimeout fires.
Sam2FairSpec == Sam2Spec /\ WF_vars(Sam2Next)

(***************************************************************************)
(* Properties of the retry loop of runSam2Segmentation                     *)
(***************************************************************************)
\* Attempt i of the loop failed: client.run rejected, or its output did not
\* validate.
AttemptFailed(i) ==
    \/ calls[i].settled = "rejected"
    \/ /\ calls[i].settled = "resolved"
       /\ validateSam2Output(calls[i].output).threw

\* The message of the error attempt i ended with.
AttemptError(i) ==
    IF calls[i].settled = "rejected" THEN calls[i].message
    ELSE validateSam2Output(calls[i].output).message

Sam2Ended == pc \in {"sam2Done", "sam2Failed"}

\* The state rules of the loop: at most 3 attempts; the delays slept are
\* 1000 then 2000, one after each failed attempt that is followed by another
\* attempt; a returned result is that of the first attempt that validated;
\* the call fails only after three failed attempts, with the error of the
\* third and no third delay.
Sam2LoopRules ==
    /\ Len(calls) <= 3
    /\ Len(sleeps) <= 2
    /\ \A k \in 1..Len(sleeps) : sleeps[k] = 1000 * 2 ^ (k - 1)
    /\ \A i \in 1..(Len(calls) - 1) : AttemptFailed(i)
    /\ pc = "sam2Run" => Len(sleeps) = Len(calls)
    /\ pc = "sam2Sleep" => Len(sleeps) = Len(calls) /\ AttemptFailed(Len(calls))
    /\ pc = "sam2Done" =>
           /\ Len(calls) >= 1
           /\ ~AttemptFailed(Len(calls))
           /\ result = Some(validateSam2Output(calls[Len(calls)].output).value[1])
           /\ Len(sleeps) = Len(calls) - 1
           /\ error = NoException
    /\ pc = "sam2Failed" =>
           /\ Len(calls) = 3
           /\ AttemptFailed(3)
           /\ sleeps = <<1000, 2000>>
           /\ lastError = Some(AttemptError(3))
           /\ error.rule = "Replicate API error: " \o AttemptError(3)
           /\ result = None

\* C27: the retry loop of runSam2Segmentation makes at most 3 attempts and
\* ends once every attempt and every delay ends; it returns the result of
\* the first attempt whose response validates and makes no attempt after it;
\* after failed attempt k (k = 1, 2) it waits 1000 * 2^(k-1) ms; after the
\* third failure it fails with the error of that attempt without waiting.
C27_RetryLoopBoundedBackoff ==
    /\ []Sam2LoopRules
    /\ [][Sam2Ended => UNCHANGED <<calls, sleeps, attempt, result, error>>]_vars
    /\ <>Sam2Ended

\* The third attempt succeeded after two failures and both delays.
C27_Witness ==
    /\ pc = "sam2Done"
    /\ Len(calls) = 3
    /\ sleeps = <<1000, 2000>>

(***************************************************************************)
(* GeminiService.detectBoundingBoxes: the provider call raced against a    *)
(* timer                                                                   *)
(***************************************************************************)
\* this.configService.get('GEMINI_API_TIMEOUT', '600000')
geminiTimeoutValue(environment) ==
    IF environment.GEMINI_API_TIMEOUT = None
    THEN <<"6", "0", "0", "0", "0", "0">>
    ELSE environment.GEMINI_API_TIMEOUT[1]

\* get geminiTimeout(): the parsed value, or an Error when it is NaN, below
\* 1000 or above 600000.
geminiTimeout(environment) ==
    LET parsed == parseInt10(geminiTimeoutValue(environment))
    IN  IF parsed = NaN \/ parsed[1] < 1000 \/ parsed[1] > 600000
        THEN Raise("Invalid GEMINI_API_TIMEOUT value")
        ELSE Return(parsed[1])

\* The values of the GEMINI_API_TIMEOUT environment variable.
GeminiTimeoutEnvs ==
    {[TOLERANCE |-> None, GEMINI_API_TIMEOUT |-> None]} \cup
    {[TOLERANCE |-> None, GEMINI_API_TIMEOUT |-> Some(t)] :
        t \in {<<"1", "0", "0", "0">>, <<"3", "0", "0", "0", "0">>, <<"6", "0", "0", "0", "0", "0">>, <<"3", "0">>, <<"9", "9", "9">>,
               <<"6", "0", "0", "0", "0", "1">>, <<"a", "b", "c">>}}

\* A coordinate of a box of the response: a number, or a value that is none.
CoordNumber(n) == [type |-> "number", value |-> n]
CoordText == [type |-> "string", value |-> 0]

\* A box of the parsed response: label is any value, box_2d is an array
\* (<<list>>) or not (<<>>).
ResponseBox(label, box2d) == [label |-> label, box_2d |-> box2d]

CoordsOf(list) == [i \in 1..Len(list) |-> CoordNumber(list[i])]

ResponseBoxes ==
    {ResponseBox(StringValue(<<"c", "a", "t">>), Some(CoordsOf(<<100, 200, 600, 700>>))),
     ResponseBox(StringValue(<<"d", "o", "g">>), Some(CoordsOf(<<0, 0, 1000, 1000>>))),
     ResponseBox(Undefined, Some(CoordsOf(<<100, 200, 600, 700>>))),
     ResponseBox(StringValue(<<>>), Some(CoordsOf(<<100, 200, 600, 700>>))),
     ResponseBox(NumberValue, Some(CoordsOf(<<100, 200, 600, 700>>))),
     ResponseBox(StringValue(<<"c", "a", "t">>), None),
     ResponseBox(StringValue(<<"c", "a", "t">>), Some(CoordsOf(<<100, 200, 600>>))),
     ResponseBox(StringValue(<<"c", "a", "t">>), Some(CoordsOf(<<100, 200, 600, 1001>>))),
     ResponseBox(StringValue(<<"c", "a", "t">>), Some(CoordsOf(<<-1, 200, 600, 700>>))),
     ResponseBox(StringValue(<<"c", "a", "t">>),
                 Some(<<CoordNumber(100), CoordText, CoordNumber(600),
                        CoordNumber(700)>>))}

\* response.text: undefined, or a text that JSON.parse throws on, or that
\* parses to null, to an object, or to an array of boxes.
ResponseTexts ==
    {None}
    \cup {Some(RegionsJson(syntax, <<>>)) : syntax \in {"malformed", "null", "object"}}
    \cup {Some(RegionsJson("array", l)) :
             l \in UNION {[1..n -> ResponseBoxes] : n \in 0..MaxBoxes}}

\* What generateContent settles with.
GeminiSettlements ==
    {[state |-> "resolved", text |-> t, message |-> "none"] : t \in ResponseTexts}
    \cup {[state |-> "rejected", text |-> None, message |-> m] :
             m \in {"fetch failed", "quota exceeded"}}

\* The check of one box inside the forEach of validateBoundingBoxesResponse:
\* the message it throws, or "none".
boxFault(box) ==
    IF box.label.type # "string" \/ box.label.text = <<>>
    THEN "missing or invalid label"
    ELSE IF box.box_2d = None \/ Len(box.box_2d[1]) # 4
    THEN "box_2d must be array of 4 numbers"
    ELSE IF \E i \in 1..4 : \/ box.box_2d[1][i].type # "number"
                            \/ box.box_2d[1][i].value < 0
                            \/ box.box_2d[1][i].value > 1000
    THEN "coordinates must be numbers in range [0, 1000]"
    ELSE "none"

\* validateBoundingBoxesResponse: throws InternalServerErrorException for a
\* value that is no array and for the first box that has a fault.
validateBoundingBoxesResponse(parsed) ==
    IF parsed.syntax # "array"
    THEN Raise("Invalid Gemini response: expected array of bounding boxes")
    ELSE LET bad == {i \in 1..Len(parsed.value) : boxFault(parsed.value[i]) # "none"}
         IN  IF bad = {} THEN Return(parsed.value)
             ELSE LET first == CHOOSE i \in bad : \A j \in bad : i <= j
                  IN  Raise("Invalid bounding box " \o ToString(first - 1) \o ": "
                            \o boxFault(parsed.value[first]))

\* The try block after the await, for a response that won the race:
\* response.text || '[]', JSON.parse, the validation.
parseDetection(text) ==
    LET parsed == IF text = None THEN RegionsJson("array", <<>>) ELSE text[1]
    IN  IF parsed.syntax = "malformed"
        THEN Raise("Unexpected token in JSON")
        ELSE validateBoundingBoxesResponse(parsed)

\* The catch block of detectBoundingBoxes for an error that is no
\* RequestTimeoutException.
detectCatch(message) ==
    [exception |-> "InternalServerErrorException", kind |-> "gemini", index |-> -1,
     rule |-> "Failed to detect bounding boxes: " \o message]

\* detectBoundingBoxes is about to be called.
DetectInit ==
    /\ pc = "detectBoundingBoxes"
    /\ env \in GeminiTimeoutEnvs
    /\ attempt = 0
    /\ lastError = None
    /\ sleeps = <<>>
    /\ calls = <<>>
    /\ timer = [state |-> "unset", ms |-> 0]
    /\ apiPromise = [state |-> "none"]
    /\ race = None
    /\ request = NoRequest
    /\ response = None
    /\ imageBuffer = NoDimsImage
    /\ regions = <<>>
    /\ includeBackground = FALSE
    /\ options = None
    /\ dims = [width |-> 0, height |-> 0]
    /\ tasks = <<>>
    /\ completionOrder = <<>>
    /\ croppedImages = None
    /\ data = <<>>
    /\ writes = {}
    /\ result = None
    /\ error = NoException
    /\ colorString = <<>>
    /\ geminiBoundingBoxes = <<>>
    /\ objectDescriptions = <<>>
    /\ imageSize = [width |-> 0, height |-> 0]
    /\ rectangle = [x |-> 0, y |-> 0, w |-> 0, h |-> 0]

DetectUnchanged ==
    UNCHANGED <<imageBuffer, regions, includeBackground, options, dims, tasks,
                completionOrder, croppedImages, data, writes, colorString,
                geminiBoundingBoxes, objectDescriptions, imageSize, rectangle,
                request, response, env, attempt, lastError, sleeps, calls>>

\* The call up to its await: geminiTimeout is read before the try block
\* (its Error leaves the method as it is), then the timer is set, the
\* provider is called and Promise.race is awaited.
DetectCalled ==
    /\ pc = "detectBoundingBoxes"
    /\ LET got == geminiTimeout(env)
       IN  IF got.threw
           THEN /\ pc' = "detectFailed"
                /\ error' = [exception |-> "Error", kind |-> "config", index |-> -1,
                             rule |-> got.message]
                /\ UNCHANGED <<timer, apiPromise>>
           ELSE /\ pc' = "race"
                /\ timer' = [state |-> "armed", ms |-> got.value[1]]
                /\ apiPromise' = [state |-> "pending"]
                /\ UNCHANGED error
    /\ UNCHANGED <<race, result>>
    /\ DetectUnchanged

\* generateContent settles.  When Promise.race is still pending it settles
\* with it and the method continues: a rejection goes to the catch block, a
\* response is parsed and validated.  When the race is already settled
\* nothing else happens.
DetectApiSettled ==
    /\ apiPromise.state = "pending"
    /\ \E settlement \in GeminiSettlements :
          /\ apiPromise' = settlement
          /\ IF race # None
             THEN UNCHANGED <<race, pc, result, error>>
             ELSE /\ race' = Some([winner |-> "apiPromise", settlement |-> settlement])
                  /\ IF settlement.state = "rejected"
                     THEN /\ pc' = "detectFailed"
                          /\ error' = detectCatch(settlement.message)
                          /\ UNCHANGED result
                     ELSE LET parsed == parseDetection(settlement.text)
                          IN  IF parsed.threw
                              THEN /\ pc' = "detectFailed"
                                   /\ error' = detectCatch(parsed.message)
                                   /\ UNCHANGED result
                              ELSE /\ pc' = "detectDone"
                                   /\ result' = Some(parsed.value[1])
                                   /\ UNCHANGED error
    /\ UNCHANGED timer
    /\ DetectUnchanged

\* The setTimeout callback runs: timeoutPromise rejects with
\* RequestTimeoutException.  When Promise.race is still pending it rejects
\* with it and the catch block rethrows the exception as it is.
DetectTimerFired ==
    /\ timer.state = "armed"
    /\ timer' = [timer EXCEPT !.state = "fired"]
    /\ IF race # None
       THEN UNCHANGED <<race, pc, error>>
       ELSE /\ race' = Some([winner |-> "timeoutPromise",
                             settlement |-> [state |-> "rejected", text |-> None,
                                             message |-> "Gemini API request timed out"]])
            /\ pc' = "detectFailed"
            /\ error' = [exception |-> "RequestTimeoutException", kind |-> "gemini",
                         index |-> -1, rule |-> "Gemini API request timed out"]
    /\ UNCHANGED <<apiPromise, result>>
    /\ DetectUnchanged

DetectNext == DetectCalled \/ DetectApiSettled \/ DetectTimerFired

DetectSpec == DetectInit /\ [][DetectNext]_vars

(***************************************************************************)
(* Properties of detectBoundingBoxes                                       *)
(***************************************************************************)
\* A box of the response with a non-empty text label and four numbers in
\* 0..1000.
WellFormedBox(box) ==
    /\ box.label.type = "string" /\ box.label.text # <<>>
    /\ box.box_2d # None
    /\ Len(box.box_2d[1]) = 4
    /\ \A i \in 1..4 : /\ box.box_2d[1][i].type = "number"
                       /\ box.box_2d[1][i].value \in 0..1000

\* The provider answered with an array of well-formed boxes (an absent text
\* counts as the empty array).
WellFormedResponse(settlement) ==
    /\ settlement.state = "resolved"
    /\ \/ settlement.text = None
       \/ /\ settlement.text[1].syntax = "array"
          /\ \A i \in 1..Len(settlement.text[1].value) :
                 WellFormedBox(settlement.text[1].value[i])

DetectEnded == pc \in {"detectDone", "detectFailed"}

\* One outcome, decided by whichever of the timer and the response came
\* first.
DetectOutcomeRules ==
    /\ pc = "detectDone" => result # None /\ error = NoException
    /\ pc = "detectFailed" => result = None /\ error # NoException
    /\ ~DetectEnded => result = None /\ error = NoException
    /\ (race # None /\ race[1].winner = "timeoutPromise") =>
           pc = "detectFailed" /\ error.exception = "RequestTimeoutException"
    /\ (race # None /\ race[1].winner = "apiPromise") =>
           IF WellFormedResponse(race[1].settlement)
           THEN /\ pc = "detectDone"
                /\ result = Some(IF race[1].settlement.text = None THEN <<>>
                                 ELSE race[1].settlement.text[1].value)
           ELSE pc = "detectFailed"
    /\ error.exception = "RequestTimeoutException" =>
           race # None /\ race[1].winner = "timeoutPromise"

\* Every failure that is no timeout is an InternalServerErrorException.
NonTimeoutFailuresAreInternal ==
    (pc = "detectFailed" /\ error.exception # "RequestTimeoutException") =>
        error.exception = "InternalServerErrorException"

\* C28: in detectBoundingBoxes the provider call races a timer and each call
\* has exactly one outcome: the timer first gives RequestTimeoutException,
\* unwrapped; the response first gives the outcome the response alone
\* decides, and the timer firing later changes nothing; every failure that
\* is no timeout, a response failing the structure validation included, is
\* an InternalServerErrorException.
C28_RaceHasOneOutcome ==
    /\ []DetectOutcomeRules
    /\ []NonTimeoutFailuresAreInternal
    /\ [][DetectEnded => UNCHANGED <<pc, result, error, race>>]_vars

(***************************************************************************)
(* FrameSpec: transform on one detected box that lies inside the           *)
(* normalized frame                                                        *)
(***************************************************************************)
\* Normalized coordinates inside the frame 0..1000.
FrameCoords == {0, 250, 500, 750, 1000}

\* The boxes validateBoundingBoxesResponse accepts whose minima are below
\* their maxima.
FrameBoxes ==
    {GeminiBox(<<"c", "a", "t">>, c[1], c[2], c[3], c[4]) :
        c \in {d \in FrameCoords \X FrameCoords \X FrameCoords \X FrameCoords :
                  d[1] < d[3] /\ d[2] < d[4]}}

\* The sizes of the pictures: small ones and those of SizeVals.
FrameSizes ==
    SizeVals \cup [width : 1..(MaxSide + 1), height : 1..(MaxSide + 1)]

FrameInit ==
    /\ IdleBoxInit
    /\ pc = "transform"
    /\ geminiBoundingBoxes \in {<<b>> : b \in FrameBoxes}
    /\ objectDescriptions = <<>>
    /\ imageSize \in FrameSizes
    /\ rectangle = [x |-> 0, y |-> 0, w |-> 0, h |-> 0]

FrameNext == TransformCall

FrameSpec == FrameInit /\ [][FrameNext]_vars

(***************************************************************************)
(* Properties of transform on boxes inside the frame                       *)
(***************************************************************************)
\* box_2d = [y_min, x_min, y_max, x_max] with 0 <= min < max <= 1000.
InsideFrame(box) ==
    /\ 0 <= box.box_2d[1] /\ box.box_2d[1] < box.box_2d[3] /\ box.box_2d[3] <= 1000
    /\ 0 <= box.box_2d[2] /\ box.box_2d[2] < box.box_2d[4] /\ box.box_2d[4] <= 1000

\* C29: a detected box inside the normalized frame is never rejected for
\* exceeding the image: for every W, H >= 1 and every box with
\* 0 <= x_min < x_max <= 1000 and 0 <= y_min < y_max <= 1000 the position
\* and the size transform rounds independently satisfy x + w <= W and
\* y + h <= H.
C29_FrameBoxNeverExceedsImage ==
    (/\ TransformEnded
     /\ Len(geminiBoundingBoxes) = 1
     /\ InsideFrame(geminiBoundingBoxes[1])
     /\ imageSize.width >= 1 /\ imageSize.height >= 1) =>
        LET r == rectangleOf(geminiBoundingBoxes[1], objectDescriptions, imageSize)
        IN  /\ r.position.x + r.size.w <= imageSize.width
            /\ r.position.y + r.size.h <= imageSize.height
            /\ ~(pc = "transformFailed" /\ error.kind = "exceeds image bounds")

(***************************************************************************)
(* Memory safety of the background masking                                 *)
(***************************************************************************)
\* The masking loops of generateBackgroundWithTransparency have run.
MaskingDone == includeBackground /\ pc \in {"encode", "done"}

\* The offsets the loops assigned, whether or not they fall in the buffer.
AssignedOffsets ==
    UNION {maskOffsets(regions[k], dims.width, dims.height) : k \in 1..Len(regions)}

\* C30: during the background masking of regions that passed validation
\* against a W x H image every byte written has index (row*W + col)*4 + 3
\* with 0 <= col < W and 0 <= row < H: every write is an alpha byte inside the
\* buffer of 4*W*H bytes, no R, G or B byte is changed and no pixel outside
\* every region is written.
C30_MaskWritesAlphaInsideRegions ==
    MaskingDone =>
        LET W == imageBuffer.width
            H == imageBuffer.height
            raw == extractRawPixels(imageBuffer)
        IN  /\ Len(data) = 4 * W * H
            /\ writes = AssignedOffsets
            /\ \A o \in AssignedOffsets :
                   /\ 0 <= o /\ o < 4 * W * H
                   /\ o % 4 = 3
                   /\ (o \div 4) % W \in 0..(W - 1)
                   /\ (o \div 4) \div W \in 0..(H - 1)
                   /\ InsideSomeRegion((o \div 4) % W, (o \div 4) \div W)
            /\ \A i \in 1..Len(data) :
                   (data[i] # raw[i]) => (i - 1) \in AssignedOffsets

\* A masked buffer in which some pixels were written and some were not.
C30_Witness ==
    /\ MaskingDone
    /\ writes # {}
    /\ Cardinality(writes) < imageBuffer.width * imageBuffer.height
    /\ \E i \in 1..Len(data) : data[i] # extractRawPixels(imageBuffer)[i]

====
